---- MODULE Spec2Model ----
(***************************************************************************)
(* A model of the audio editor's playback, effect-graph and mixing code.   *)
(*                                                                         *)
(* Times are whole seconds unless a definition says otherwise.  Each       *)
(* component has its own specification; the variables of the other         *)
(* components stay at their initial values under it.                       *)
(***************************************************************************)
EXTENDS Integers, Sequences, FiniteSets

VARIABLES
    \* ---- PlaybackControls (with the editor page that owns its props) ----
    audioBuffer,               \* editor state: TRUE when a decoded buffer is loaded
    isPlaying,                 \* editor state, set through onPlayPause
    currentTime,               \* editor state, set through onTimeUpdate / onSeek
    playbackStartContextTime,  \* PlaybackControls state
    playbackOffset,            \* PlaybackControls state
    sourceNodeRef,             \* 0 is null, otherwise the index of a source in sources
    sources,                   \* every AudioBufferSourceNode created so far
    clock,                     \* audioContext.currentTime
    pending,                   \* handlers suspended at `await import(...)`, oldest first
    lastOp,                    \* the handler that ran last
    \* ---- multi-track editor (main.tsx) ----
    tracks,                    \* state.tracks: the track records, in insertion order
    trackBuffers,              \* the buffer registry: track id -> decoded buffer
    nextTrackId,               \* stands for crypto.randomUUID(): the next unused id
    \* ---- useLivePlayback ----
    playbackStateRef,          \* {isPlaying, currentTime, startTime}; currentTime in ms
    trackNodesRef,             \* track id -> the running node chain of that track
    liveCurrentTime,           \* the hook's currentTime state, in ms
    rafLoop,                   \* TRUE while an updateTime animation frame is requested
    renderedIsPlaying,         \* the isPlaying dependency seen by the last render
    liveStartedAt,             \* history: the clock and the argument of the last start()
    liveTicks,                 \* history: animation frames run since the last start()
    liveLastOp,                \* the hook operation that ran last
    \* ---- effects (main.tsx state.effects, audioProcessing) ----
    effects,                   \* state.effects, in insertion order
    nextEffectId,              \* the next unused effect id
    fxOut,                     \* the audio-processing call made last, and its result
    \* ---- handleExport (main.tsx) ----
    exports,                   \* every handleExport call made so far, oldest first
    downloads,                 \* the files handed to downloadBlob, oldest first
    \* ---- useHistory (the editor state of main.tsx lives in history.present) ----
    past,                      \* history.past, oldest first
    future,                    \* history.future, nearest first
    \* ---- cutting (editor.tsx, CuttingTools, WaveformVisualization) ----
    editorBuffer,              \* editor.tsx audioBuffer with its samples; Null without a file
    selection,                 \* editor.tsx selection: Null or {startTime, endTime}
    isDragging,                \* WaveformVisualization state
    dragStart,                 \* WaveformVisualization state: Null or {time}
    cutOut                     \* the cutting handler that ran last, and what it did

pcVars == <<audioBuffer, isPlaying, currentTime, playbackStartContextTime,
            playbackOffset, sourceNodeRef, sources, clock, pending, lastOp>>

edVars == <<tracks, trackBuffers, nextTrackId>>

liveVars == <<playbackStateRef, trackNodesRef, liveCurrentTime, rafLoop,
              renderedIsPlaying, liveStartedAt, liveTicks, liveLastOp>>

fxVars == <<effects, nextEffectId, fxOut>>

exVars == <<exports, downloads>>

histVars == <<past, future>>

cutVars == <<editorBuffer, selection, isDragging, dragStart, cutOut>>

vars == <<pcVars, edVars, liveVars, fxVars, exVars, histVars, cutVars>>

(***************************************************************************)
(* Bounds.                                                                 *)
(***************************************************************************)
Duration == 10
MaxClock == 3
MaxSources == 2
MaxPending == 2
MaxTracks == 2
MaxTicks == 2
MaxEffects == 2
MaxLiveTracks == 1
MaxFrames == 2
TimelineSeconds == 8

\* Positions the seek slider and the timeline can be set to.
SeekTimes == {3, 8}

(***************************************************************************)
(* PlaybackControls                                                        *)
(***************************************************************************)

\* source.stop(): a playing source stops and its ended event is queued;
\* stopping a source that has already stopped or ended changes nothing.
\* A source that no longer plays has no position: its startClock and offset
\* are cleared.
StopSource(srcs, s) ==
    IF s \in 1..Len(srcs) /\ srcs[s].state = "playing"
    THEN [srcs EXCEPT ![s] = [state |-> "stopped", startClock |-> 0,
                              offset |-> 0, endedQueued |-> TRUE]]
    ELSE srcs

\* createRealtimeAudioSource(...) followed by source.start(0, offset): a new
\* source that plays the buffer from `offset`, started at the current clock.
\* A source started at or past the end of the buffer ends at once.
NewSource(offset) ==
    IF offset >= Duration
    THEN [state |-> "ended", startClock |-> 0, offset |-> 0, endedQueued |-> TRUE]
    ELSE [state |-> "playing", startClock |-> clock, offset |-> offset,
          endedQueued |-> FALSE]

\* The position the interval callback computes.
currentPositionDrift == currentTime + (clock - playbackStartContextTime)

currentPosition == clock - playbackStartContextTime + playbackOffset

PcInit ==
    /\ audioBuffer = FALSE
    /\ isPlaying = FALSE
    /\ currentTime = 0
    /\ playbackStartContextTime = 0
    /\ playbackOffset = 0
    /\ sourceNodeRef = 0
    /\ sources = <<>>
    /\ clock = 0
    /\ pending = <<>>
    /\ lastOp = "other"

\* editor.tsx handleFileUpload: a file is decoded and becomes the buffer.
handleFileUpload ==
    /\ audioBuffer' = TRUE
    /\ currentTime' = 0
    /\ lastOp' = "other"
    /\ UNCHANGED <<isPlaying, playbackStartContextTime, playbackOffset,
                   sourceNodeRef, sources, clock, pending>>

\* handlePlayPause with no buffer: returns at once.
PlayPauseNoBuffer ==
    /\ ~audioBuffer
    /\ lastOp' = "other"
    /\ UNCHANGED <<audioBuffer, isPlaying, currentTime, playbackStartContextTime,
                   playbackOffset, sourceNodeRef, sources, clock, pending>>

\* handlePlayPause while playing: stop the current source (pause).
Pause ==
    /\ audioBuffer /\ isPlaying
    /\ sources' = StopSource(sources, sourceNodeRef)
    /\ sourceNodeRef' = 0
    /\ isPlaying' = FALSE
    /\ lastOp' = "pause"
    /\ UNCHANGED <<audioBuffer, currentTime, playbackStartContextTime,
                   playbackOffset, clock, pending>>

\* handlePlayPause while stopped, up to the awaited import: the handler
\* suspends holding the currentTime of the render it was created in.
PlayBegin ==
    /\ audioBuffer /\ ~isPlaying
    /\ Len(pending) < MaxPending
    /\ pending' = Append(pending, [op |-> "play", time |-> currentTime])
    /\ lastOp' = "other"
    /\ UNCHANGED <<audioBuffer, isPlaying, currentTime, playbackStartContextTime,
                   playbackOffset, sourceNodeRef, sources, clock>>

\* handlePlayPause after the import: create and start the source, record the
\* start clock and the offset, report Playing.
PlayResume ==
    /\ pending # <<>> /\ Head(pending).op = "play"
    /\ Len(sources) < MaxSources
    /\ sources' = Append(sources, NewSource(Head(pending).time))
    /\ sourceNodeRef' = Len(sources) + 1
    /\ playbackStartContextTime' = clock
    /\ playbackOffset' = Head(pending).time
    /\ isPlaying' = TRUE
    /\ pending' = Tail(pending)
    /\ lastOp' = "play"
    /\ UNCHANGED <<audioBuffer, currentTime, clock>>

\* handleStop: stop the current source, report Stopped, position 0.
handleStopKeepsPosition ==
    /\ sources' = StopSource(sources, sourceNodeRef)
    /\ sourceNodeRef' = 0
    /\ isPlaying' = FALSE
    /\ lastOp' = "stop"
    /\ UNCHANGED <<audioBuffer, currentTime, playbackStartContextTime, playbackOffset,
                   clock, pending>>

handleStop ==
    /\ sources' = StopSource(sources, sourceNodeRef)
    /\ sourceNodeRef' = 0
    /\ isPlaying' = FALSE
    /\ currentTime' = 0
    /\ lastOp' = "stop"
    /\ UNCHANGED <<audioBuffer, playbackStartContextTime, playbackOffset,
                   clock, pending>>

\* handleSeek while nothing is playing (or no source is referenced): only
\* onSeek(newTime) runs.
SeekIdle(newTime) ==
    /\ ~(isPlaying /\ sourceNodeRef # 0 /\ audioBuffer)
    /\ currentTime' = newTime
    /\ lastOp' = "other"
    /\ UNCHANGED <<audioBuffer, isPlaying, playbackStartContextTime, playbackOffset,
                   sourceNodeRef, sources, clock, pending>>

\* handleSeek while playing, up to the awaited import: the current source is
\* stopped and disconnected (the reference is kept) and the handler suspends.
SeekBegin(newTime) ==
    /\ isPlaying /\ sourceNodeRef # 0 /\ audioBuffer
    /\ Len(pending) < MaxPending
    /\ sources' = StopSource(sources, sourceNodeRef)
    /\ pending' = Append(pending, [op |-> "seek", time |-> newTime])
    /\ lastOp' = "other"
    /\ UNCHANGED <<audioBuffer, isPlaying, currentTime, playbackStartContextTime,
                   playbackOffset, sourceNodeRef, clock>>

\* handleSeek after the import: create and start the new source at newTime,
\* record the start clock and the offset, then onSeek(newTime).
SeekResume ==
    /\ pending # <<>> /\ Head(pending).op = "seek"
    /\ Len(sources) < MaxSources
    /\ sources' = Append(sources, NewSource(Head(pending).time))
    /\ sourceNodeRef' = Len(sources) + 1
    /\ playbackStartContextTime' = clock
    /\ playbackOffset' = Head(pending).time
    /\ currentTime' = Head(pending).time
    /\ pending' = Tail(pending)
    /\ lastOp' = "seek"
    /\ UNCHANGED <<audioBuffer, isPlaying, clock>>

\* TimelineEditor click: onSeek is the editor's setCurrentTime.
TimelineSeek(time) ==
    /\ audioBuffer
    /\ currentTime' = time
    /\ lastOp' = "other"
    /\ UNCHANGED <<audioBuffer, isPlaying, playbackStartContextTime, playbackOffset,
                   sourceNodeRef, sources, clock, pending>>

\* The 50 ms interval callback, which exists only while isPlaying.
IntervalTickUnclamped ==
    /\ isPlaying
    /\ isPlaying' = (currentPosition < Duration)
    /\ currentTime' = currentPosition
    /\ lastOp' = "tick"
    /\ UNCHANGED <<audioBuffer, playbackStartContextTime, playbackOffset,
                   sourceNodeRef, sources, clock, pending>>

IntervalTick ==
    /\ isPlaying
    /\ IF currentPosition >= Duration
       THEN /\ isPlaying' = FALSE
            /\ currentTime' = Duration
       ELSE /\ currentTime' = currentPosition
            /\ UNCHANGED isPlaying
    /\ lastOp' = "tick"
    /\ UNCHANGED <<audioBuffer, playbackStartContextTime, playbackOffset,
                   sourceNodeRef, sources, clock, pending>>

\* The audio clock advances; a playing source that reaches the end of the
\* buffer ends and its ended event is queued.
ClockAdvance ==
    /\ clock < MaxClock
    /\ clock' = clock + 1
    /\ sources' = [s \in 1..Len(sources) |->
                     IF /\ sources[s].state = "playing"
                        /\ sources[s].offset + (clock + 1 - sources[s].startClock) >= Duration
                     THEN [state |-> "ended", startClock |-> 0, offset |-> 0,
                           endedQueued |-> TRUE]
                     ELSE sources[s]]
    /\ lastOp' = "other"
    /\ UNCHANGED <<audioBuffer, isPlaying, currentTime, playbackStartContextTime,
                   playbackOffset, sourceNodeRef, pending>>

\* source.onended: only the source the reference still points at reports
\* Stopped.
OnEnded(s) ==
    /\ s \in 1..Len(sources) /\ sources[s].endedQueued
    /\ sources' = [sources EXCEPT ![s].endedQueued = FALSE]
    /\ isPlaying' = IF sourceNodeRef = s THEN FALSE ELSE isPlaying
    /\ lastOp' = "other"
    /\ UNCHANGED <<audioBuffer, currentTime, playbackStartContextTime, playbackOffset,
                   sourceNodeRef, clock, pending>>

(***************************************************************************)
(* The multi-track editor (main.tsx): the track list and buffer registry   *)
(***************************************************************************)

\* Decoded buffers a file import can deliver: lengths in frames, rates in
\* frames per second.
BufferChoices ==
    { [length |-> 4, sampleRate |-> 2, numberOfChannels |-> 1],
      [length |-> 2, sampleRate |-> 2, numberOfChannels |-> 2],
      [length |-> 3, sampleRate |-> 1, numberOfChannels |-> 2] }

\* The updates TrackList sends through onUpdateTrack.
VolumeChoices == {50, 100}
PanChoices == {-100, 0}

TrackIds == {tracks[i].id : i \in 1..Len(tracks)}

TrackById(id) == tracks[CHOOSE i \in 1..Len(tracks) : tracks[i].id = id]

EdInit ==
    /\ tracks = <<>>
    /\ trackBuffers = <<>>
    /\ nextTrackId = 1

\* main.tsx handleFileUpload: the decoded file becomes a new track with the
\* default controls, and its buffer is registered under the track's id.
AddTrack(buffer) ==
    /\ nextTrackId <= MaxTracks
    /\ tracks' = Append(tracks, [id |-> nextTrackId, volume |-> 100, pan |-> 0,
                                 isMuted |-> FALSE, isSolo |-> FALSE])
    /\ trackBuffers' = [i \in DOMAIN trackBuffers \cup {nextTrackId} |->
                           IF i = nextTrackId THEN buffer ELSE trackBuffers[i]]
    /\ nextTrackId' = nextTrackId + 1

\* main.tsx handleUpdateTrack(id, updates): the fields named in updates are
\* replaced in the track with that id.
handleUpdateTrack(id, updates) ==
    /\ id \in TrackIds
    /\ tracks' = [i \in 1..Len(tracks) |->
                    IF tracks[i].id = id
                    THEN [f \in DOMAIN tracks[i] |->
                            IF f \in DOMAIN updates THEN updates[f] ELSE tracks[i][f]]
                    ELSE tracks[i]]
    /\ UNCHANGED <<trackBuffers, nextTrackId>>

SetVolume(id, v) == handleUpdateTrack(id, [volume |-> v])

SetPan(id, v) == handleUpdateTrack(id, [pan |-> v])

ToggleMute(id) ==
    /\ id \in TrackIds
    /\ handleUpdateTrack(id, [isMuted |-> ~TrackById(id).isMuted])

ToggleSolo(id) ==
    /\ id \in TrackIds
    /\ handleUpdateTrack(id, [isSolo |-> ~TrackById(id).isSolo])

\* filter: the elements of seq that satisfy keep, in order.
RECURSIVE FilterSeq(_, _)
FilterSeq(seq, keepIds) ==
    IF seq = <<>> THEN <<>>
    ELSE IF Head(seq).id \in keepIds
         THEN <<Head(seq)>> \o FilterSeq(Tail(seq), keepIds)
         ELSE FilterSeq(Tail(seq), keepIds)

\* main.tsx handleRemoveTrack: the track record and the registry entry go.
handleRemoveTrack(id) ==
    /\ id \in TrackIds
    /\ tracks' = FilterSeq(tracks, TrackIds \ {id})
    /\ trackBuffers' = [i \in DOMAIN trackBuffers \ {id} |-> trackBuffers[i]]
    /\ UNCHANGED nextTrackId

EdNext ==
    \/ \E b \in BufferChoices : AddTrack(b)
    \/ \E id \in 1..MaxTracks, v \in VolumeChoices : SetVolume(id, v)
    \/ \E id \in 1..MaxTracks, v \in PanChoices : SetPan(id, v)
    \/ \E id \in 1..MaxTracks : ToggleMute(id)
    \/ \E id \in 1..MaxTracks : ToggleSolo(id)
    \/ \E id \in 1..MaxTracks : handleRemoveTrack(id)

(***************************************************************************)
(* useLivePlayback                                                         *)
(*                                                                         *)
(* playbackStateRef.currentTime and the hook's currentTime state are kept  *)
(* in milliseconds, so that `elapsed / 1000` (elapsed in whole seconds) is *)
(* exact.                                                                  *)
(***************************************************************************)

\* Offsets start() is called with.
LiveStartTimes == {0, 3}

LiveInit ==
    /\ playbackStateRef = [isPlaying |-> FALSE, currentTime |-> 0, startTime |-> 0]
    /\ trackNodesRef = <<>>
    /\ liveCurrentTime = 0
    /\ rafLoop = FALSE
    /\ renderedIsPlaying = FALSE
    /\ liveStartedAt = [clock |-> 0, startTime |-> 0]
    /\ liveTicks = 0
    /\ liveLastOp = "none"

\* The nodes start() builds for one track.
LiveTrackNode(track) ==
    [gain |-> IF track.isMuted THEN 0 ELSE track.volume, pan |-> track.pan]

\* elapsed, as updateTime computes it (whole seconds).
LiveElapsed == clock - playbackStateRef.startTime

\* start(startTime): stop and drop the running nodes, build and start a node
\* chain for every track that has a buffer, and reset the playback state.
LiveStart(startTime) ==
    /\ trackNodesRef' = [id \in {i \in TrackIds : i \in DOMAIN trackBuffers} |->
                            LiveTrackNode(TrackById(id))]
    /\ playbackStateRef' = [isPlaying |-> TRUE,
                            currentTime |-> 1000 * startTime,
                            startTime |-> clock - startTime]
    /\ liveStartedAt' = [clock |-> clock, startTime |-> startTime]
    /\ liveTicks' = 0
    /\ liveLastOp' = "start"
    /\ UNCHANGED <<liveCurrentTime, rafLoop, renderedIsPlaying>>

\* stop(): stop and drop the nodes, clear isPlaying, report position 0.
LiveStopKeepsNodes ==
    /\ playbackStateRef' = [playbackStateRef EXCEPT !.isPlaying = FALSE]
    /\ liveCurrentTime' = 0
    /\ liveLastOp' = "stop"
    /\ UNCHANGED <<trackNodesRef, rafLoop, renderedIsPlaying, liveStartedAt, liveTicks>>

LiveStop ==
    /\ trackNodesRef' = <<>>
    /\ playbackStateRef' = [playbackStateRef EXCEPT !.isPlaying = FALSE]
    /\ liveCurrentTime' = 0
    /\ liveLastOp' = "stop"
    /\ UNCHANGED <<rafLoop, renderedIsPlaying, liveStartedAt, liveTicks>>

\* A render of the component that uses the hook: when the isPlaying
\* dependency differs from the one of the previous render, the effect's
\* cleanup cancels the requested frame and the effect runs again, requesting
\* a frame only when playing.
LiveRender ==
    /\ playbackStateRef.isPlaying # renderedIsPlaying
    /\ renderedIsPlaying' = playbackStateRef.isPlaying
    /\ rafLoop' = playbackStateRef.isPlaying
    /\ liveLastOp' = "render"
    /\ UNCHANGED <<playbackStateRef, trackNodesRef, liveCurrentTime,
                   liveStartedAt, liveTicks>>

\* updateTime, one animation frame.
updateTime ==
    /\ rafLoop
    /\ liveTicks < MaxTicks
    /\ playbackStateRef' =
          [playbackStateRef EXCEPT !.currentTime = @ + LiveElapsed]
    /\ liveCurrentTime' = playbackStateRef.currentTime + LiveElapsed
    /\ liveTicks' = liveTicks + 1
    /\ liveLastOp' = "tick"
    /\ UNCHANGED <<trackNodesRef, rafLoop, renderedIsPlaying, liveStartedAt>>

\* setValueAtTime on a node's gain or pan.
SetNode(id, field, value) ==
    [trackNodesRef EXCEPT ![id] = [@ EXCEPT ![field] = value]]

IsMutedOf(id) == IF id \in TrackIds THEN TrackById(id).isMuted ELSE FALSE

VolumeOf(id) == IF id \in TrackIds THEN TrackById(id).volume ELSE 100

\* updateTrackVolume(trackId, volume)
updateTrackVolume(trackId, volume) ==
    /\ trackNodesRef' =
          IF trackId \in DOMAIN trackNodesRef
          THEN SetNode(trackId, "gain", IF IsMutedOf(trackId) THEN 0 ELSE volume)
          ELSE trackNodesRef
    /\ liveLastOp' = "update"
    /\ UNCHANGED <<playbackStateRef, liveCurrentTime, rafLoop, renderedIsPlaying,
                   liveStartedAt, liveTicks>>

\* updateTrackPan(trackId, pan)
updateTrackPan(trackId, pan) ==
    /\ trackNodesRef' =
          IF trackId \in DOMAIN trackNodesRef
          THEN SetNode(trackId, "pan", pan)
          ELSE trackNodesRef
    /\ liveLastOp' = "update"
    /\ UNCHANGED <<playbackStateRef, liveCurrentTime, rafLoop, renderedIsPlaying,
                   liveStartedAt, liveTicks>>

\* updateTrackMute(trackId, isMuted)
updateTrackMute(trackId, muted) ==
    /\ trackNodesRef' =
          IF trackId \in DOMAIN trackNodesRef
          THEN SetNode(trackId, "gain", IF muted THEN 0 ELSE VolumeOf(trackId))
          ELSE trackNodesRef
    /\ liveLastOp' = "update"
    /\ UNCHANGED <<playbackStateRef, liveCurrentTime, rafLoop, renderedIsPlaying,
                   liveStartedAt, liveTicks>>

\* updateTrackSolo()
updateTrackSolo ==
    /\ LET hasSolo == \E i \in 1..Len(tracks) : tracks[i].isSolo
           shouldPlay(t) == ~t.isMuted /\ (~hasSolo \/ t.isSolo)
       IN trackNodesRef' =
             [id \in DOMAIN trackNodesRef |->
                 IF id \in TrackIds
                 THEN [trackNodesRef[id] EXCEPT
                          !.gain = IF shouldPlay(TrackById(id))
                                   THEN TrackById(id).volume ELSE 0]
                 ELSE trackNodesRef[id]]
    /\ liveLastOp' = "update"
    /\ UNCHANGED <<playbackStateRef, liveCurrentTime, rafLoop, renderedIsPlaying,
                   liveStartedAt, liveTicks>>

(***************************************************************************)
(* Effects: the descriptor list and the graphs built from it               *)
(*                                                                         *)
(* Automation times are in quarter seconds, so that startTime +            *)
(* duration * 0.25 is a whole number; pan values and gains are in          *)
(* hundredths.  A parameter value is a fraction <<numerator, denominator>> *)
(* with a positive denominator.                                            *)
(***************************************************************************)

\* The descriptors the effect panels can add (the id is given on insertion).
EffectChoices ==
    { [type |-> "panning", startTime |-> 1, duration |-> 4, intensity |-> 100],
      [type |-> "panning", startTime |-> 2, duration |-> 2, intensity |-> 0],
      [type |-> "reverb", startTime |-> 5, duration |-> 2, dryWet |-> 50, decay |-> 2],
      [type |-> "delay", startTime |-> 1, duration |-> 2, dryWet |-> 30,
       delayTime |-> 1, feedback |-> 40],
      [type |-> "eq", startTime |-> 1, duration |-> 2, lowGain |-> 6, midGain |-> 0,
       highGain |-> -6],
      [type |-> "compressor", startTime |-> 5, duration |-> 2, threshold |-> -24,
       ratio |-> 4, attack |-> 0, release |-> 1],
      [type |-> "pitchshift", startTime |-> 1, duration |-> 2, semitones |-> 12],
      [type |-> "distortion", startTime |-> 5, duration |-> 2, amount |-> 50,
       tone |-> 50],
      [type |-> "chorus", startTime |-> 1, duration |-> 2, rate |-> 1, depth |-> 50,
       dryWet |-> 50] }

\* Buffers handed to the renderers; samples are whole numbers standing for
\* floats, chain lists the stages the samples have been rendered through.
FxBuffers ==
    { [numberOfChannels |-> 1, length |-> 2, sampleRate |-> 1,
       channels |-> << <<3, -3>> >>, chain |-> <<>>],
      [numberOfChannels |-> 2, length |-> 2, sampleRate |-> 1,
       channels |-> << <<3, -3>>, <<1, 0>> >>, chain |-> <<>>] }

WithId(e, id) == [f \in DOMAIN e \cup {"id"} |-> IF f = "id" THEN id ELSE e[f]]

FxInit ==
    /\ effects = <<>>
    /\ nextEffectId = 1
    /\ fxOut = [op |-> "none"]

\* [...effects].sort((a, b) => a.startTime - b.startTime): a stable sort.
RECURSIVE InsertByStart(_, _)
InsertByStart(sorted, e) ==
    IF sorted = <<>> THEN <<e>>
    ELSE IF e.startTime < Head(sorted).startTime
         THEN <<e>> \o sorted
         ELSE <<Head(sorted)>> \o InsertByStart(Tail(sorted), e)

RECURSIVE SortFrom(_, _)
SortFrom(sorted, rest) ==
    IF rest = <<>> THEN sorted
    ELSE SortFrom(InsertByStart(sorted, Head(rest)), Tail(rest))

SortedEffectsUnsorted(effs) == effs

SortedEffects(effs) == SortFrom(<<>>, effs)

\* AudioParam automation events.
SetValueAtTime(value, time) == [kind |-> "set", value |-> value, time |-> time]

LinearRampToValueAtTime(value, time) == [kind |-> "ramp", value |-> value, time |-> time]

\* An event scheduled on a parameter replaces an event of its kind at its
\* time, and otherwise goes after the events already there that are not
\* later than it.
RECURSIVE ScheduleEvent(_, _)
ScheduleEvent(events, e) ==
    IF events = <<>> THEN <<e>>
    ELSE IF e.time < Head(events).time
         THEN <<e>> \o events
    ELSE IF e.time = Head(events).time /\ e.kind = Head(events).kind
         THEN <<e>> \o Tail(events)
    ELSE <<Head(events)>> \o ScheduleEvent(Tail(events), e)

\* The value of a parameter with default value 0 at time t: the value of the
\* last event at or before t, or, when the event after it is a linear ramp,
\* the point of the line from that value to the ramp's target.
ParamValueAt(events, t) ==
    LET before == {i \in 1..Len(events) : events[i].time <= t}
    IN  IF before = {}
        THEN <<0, 1>>
        ELSE LET i == CHOOSE k \in before : \A m \in before : m <= k
             IN  IF i < Len(events) /\ events[i + 1].kind = "ramp"
                 THEN LET span == events[i + 1].time - events[i].time
                      IN  <<events[i].value * span
                              + (events[i + 1].value - events[i].value)
                                * (t - events[i].time),
                            span>>
                 ELSE <<events[i].value, 1>>

\* panValue = (effect.intensity / 100) * 2 - 1, in hundredths.
PanValue(effect) == 2 * effect.intensity - 100

\* The four automation calls both panning functions make for one effect.
PanningEvents(effect) ==
    << SetValueAtTime(0, 4 * effect.startTime),
       LinearRampToValueAtTime(PanValue(effect), 4 * effect.startTime + effect.duration),
       SetValueAtTime(PanValue(effect), 4 * effect.startTime + 3 * effect.duration),
       LinearRampToValueAtTime(0, 4 * effect.startTime + 4 * effect.duration) >>

createPanningEffect(effect) ==
    [type |-> "panner", effect |-> effect, pan |-> PanningEvents(effect)]

createReverbEffect(effect) ==
    [type |-> "reverb", effect |-> effect,
     dryGain |-> 100 - effect.dryWet, wetGain |-> effect.dryWet,
     delayTime |-> effect.decay, feedback |-> 30]

createDelayEffect(effect) ==
    [type |-> "delay", effect |-> effect,
     dryGain |-> 100 - effect.dryWet, wetGain |-> effect.dryWet,
     delayTime |-> 4 * effect.delayTime, feedback |-> effect.feedback]

createEQEffect(effect) ==
    [type |-> "eq", effect |-> effect,
     lowShelf |-> [frequency |-> 200, gain |-> effect.lowGain],
     mid |-> [frequency |-> 1000, Q |-> 1, gain |-> effect.midGain],
     highShelf |-> [frequency |-> 3000, gain |-> effect.highGain]]

\* Returns its input (no new node) when the context has no
\* createDynamicsCompressor.
createCompressorEffect(effect, ctxHasCompressor) ==
    IF ~ctxHasCompressor THEN <<>>
    ELSE << [type |-> "compressor", effect |-> effect,
             threshold |-> effect.threshold, ratio |-> effect.ratio,
             attack |-> effect.attack, release |-> effect.release] >>

\* One pass of the loop over the effects: the nodes the effect adds to the
\* chain (none for a type no branch handles).
StageOf(effect, ctxHasCompressor) ==
    IF effect.type = "panning" THEN <<createPanningEffect(effect)>>
    ELSE IF effect.type = "reverb" THEN <<createReverbEffect(effect)>>
    ELSE IF effect.type = "delay" THEN <<createDelayEffect(effect)>>
    ELSE IF effect.type = "eq" THEN <<createEQEffect(effect)>>
    ELSE IF effect.type = "compressor"
         THEN createCompressorEffect(effect, ctxHasCompressor)
    ELSE <<>>

\* for (const effect of ...) prevNode = create...Effect(ctx, prevNode, effect)
RECURSIVE BuildChain(_, _)
BuildChain(effs, ctxHasCompressor) ==
    IF effs = <<>> THEN <<>>
    ELSE StageOf(Head(effs), ctxHasCompressor)
           \o BuildChain(Tail(effs), ctxHasCompressor)

\* The mono-to-stereo up-mix of a destination with two channels.
UpMix(channels) == IF Len(channels) = 1 THEN <<channels[1], channels[1]>> ELSE channels

applyAllEffectsNoEarlyReturn(buffer, effs, ctxHasCompressor) ==
    [numberOfChannels |-> 2,
     length |-> buffer.length,
     sampleRate |-> buffer.sampleRate,
     channels |-> UpMix(buffer.channels),
     chain |-> buffer.chain \o BuildChain(SortedEffects(effs), ctxHasCompressor)]

\* applyAllEffects: the buffer itself for an empty list, otherwise the
\* rendering of the buffer through the chain of the sorted effects, in an
\* offline context of the buffer's channel count, length and rate.
applyAllEffects(buffer, effs, ctxHasCompressor) ==
    IF Len(effs) = 0 THEN buffer
    ELSE [numberOfChannels |-> buffer.numberOfChannels,
          length |-> buffer.length,
          sampleRate |-> buffer.sampleRate,
          channels |-> buffer.channels,
          chain |-> buffer.chain
                      \o BuildChain(SortedEffects(effs), ctxHasCompressor)]

\* The automation applyPanningEffects schedules on its one panner node.
RECURSIVE ScheduleAll(_, _)
ScheduleAll(events, new) ==
    IF new = <<>> THEN events
    ELSE ScheduleAll(ScheduleEvent(events, Head(new)), Tail(new))

RECURSIVE SharedPannerEvents(_, _)
SharedPannerEvents(events, effs) ==
    IF effs = <<>> THEN events
    ELSE SharedPannerEvents(ScheduleAll(events, PanningEvents(Head(effs))), Tail(effs))

\* applyPanningEffects: the buffer itself for an empty list, otherwise the
\* rendering of the buffer through one panner that carries the automation of
\* every effect, scheduled in startTime order.
applyPanningEffects(buffer, effs) ==
    IF Len(effs) = 0 THEN buffer
    ELSE [numberOfChannels |-> buffer.numberOfChannels,
          length |-> buffer.length,
          sampleRate |-> buffer.sampleRate,
          channels |-> buffer.channels,
          chain |-> buffer.chain
                      \o << [type |-> "panner", effects |-> SortedEffects(effs),
                             pan |-> SharedPannerEvents(<<>>, SortedEffects(effs))] >>]

\* createRealtimeAudioSource (all effect types): source, the chain of the
\* effects as listed, the volume gain, the destination.
createRealtimeAudioSource(effs, volume, ctxHasCompressor) ==
    [chain |-> BuildChain(effs, ctxHasCompressor), gain |-> volume]

\* state.effects.filter(e => e.type === "panning")
RECURSIVE PanningOnly(_)
PanningOnly(effs) ==
    IF effs = <<>> THEN <<>>
    ELSE IF Head(effs).type = "panning"
         THEN <<Head(effs)>> \o PanningOnly(Tail(effs))
         ELSE PanningOnly(Tail(effs))

\* The times at which a parameter is read, in quarter seconds.
FxTimes == 0..(4 * TimelineSeconds)

\* What a stage does to the signal at time t, from the parameters of its
\* nodes: a panner passes the signal through where its pan is 0, a dry/wet
\* stage where the wet gain is 0 and the dry gain 1, the filters where all
\* three gains are 0 dB, a compressor where its ratio is 1.
PassThroughAt(stage, t) ==
    IF stage.type = "panner" THEN ParamValueAt(stage.pan, t)[1] = 0
    ELSE IF stage.type \in {"reverb", "delay"}
         THEN stage.wetGain = 0 /\ stage.dryGain = 100
    ELSE IF stage.type = "eq"
         THEN stage.lowShelf.gain = 0 /\ stage.mid.gain = 0 /\ stage.highShelf.gain = 0
    ELSE stage.ratio = 1

\* The effects whose automation a panner stage carries.
StageEffects(stage) ==
    IF "effects" \in DOMAIN stage
    THEN {stage.effects[i] : i \in 1..Len(stage.effects)}
    ELSE {stage.effect}

\* handleAddEffect / handleAddPanningEffect: append to the list.
handleAddEffect(effect) ==
    /\ nextEffectId <= MaxEffects
    /\ effects' = Append(effects, WithId(effect, nextEffectId))
    /\ nextEffectId' = nextEffectId + 1
    /\ fxOut' = [op |-> "none"]

\* handleRemoveEffect / handleRemovePanningEffect: filter the id out.
handleRemoveEffect(id) ==
    /\ \E i \in 1..Len(effects) : effects[i].id = id
    /\ effects' = FilterSeq(effects, {effects[i].id : i \in 1..Len(effects)} \ {id})
    /\ fxOut' = [op |-> "none"]
    /\ UNCHANGED nextEffectId

\* An offline render of a buffer through the whole list.
RenderAll(buffer, ctxHasCompressor) ==
    /\ fxOut' = [op |-> "applyAllEffects", input |-> buffer, given |-> effects,
                 ctxHasCompressor |-> ctxHasCompressor,
                 output |-> applyAllEffects(buffer, effects, ctxHasCompressor)]
    /\ UNCHANGED <<effects, nextEffectId>>

\* An offline render of a buffer through the panning effects of the list.
RenderPanning(buffer) ==
    /\ fxOut' = [op |-> "applyPanningEffects", input |-> buffer,
                 given |-> PanningOnly(effects),
                 output |-> applyPanningEffects(buffer, PanningOnly(effects))]
    /\ UNCHANGED <<effects, nextEffectId>>

\* The realtime graph of a playback start.
RealtimeGraph(ctxHasCompressor) ==
    /\ fxOut' = [op |-> "createRealtimeAudioSource", given |-> effects,
                 ctxHasCompressor |-> ctxHasCompressor,
                 output |-> createRealtimeAudioSource(effects, 80, ctxHasCompressor)]
    /\ UNCHANGED <<effects, nextEffectId>>

(***************************************************************************)
(* Track mixing                                                            *)
(***************************************************************************)

\* The sample rate of the context handed to mixAudioTracks.
ContextSampleRates == {2}

\* Math.ceil(a / b) for whole a >= 0 and b > 0.
Ceil(a, b) == (a + b - 1) \div b

\* handleExport's trackData: each track's registered buffer with its controls.
TrackData ==
    [i \in 1..Len(tracks) |->
        [buffer |-> trackBuffers[tracks[i].id], volume |-> tracks[i].volume,
         pan |-> tracks[i].pan, isMuted |-> tracks[i].isMuted,
         isSolo |-> tracks[i].isSolo]]

SkippedUnlessSolo(track, hasSolo) == IF hasSolo THEN ~track.isSolo ELSE track.isMuted

\* if (track.isMuted || (hasSolo && !track.isSolo)) continue;
Skipped(track, hasSolo) == track.isMuted \/ (hasSolo /\ ~track.isSolo)

\* The sources the loop connects to the destination: for each track not
\* skipped, its buffer through a gain of volume / 100 and a pan of pan / 100
\* (both kept in hundredths), started at 0.
RECURSIVE MixSources(_, _, _)
MixSources(trackData, i, hasSolo) ==
    IF i > Len(trackData) THEN <<>>
    ELSE (IF Skipped(trackData[i], hasSolo) THEN <<>>
          ELSE << [index |-> i, buffer |-> trackData[i].buffer,
                   gain |-> trackData[i].volume, pan |-> trackData[i].pan,
                   when |-> 0] >>)
           \o MixSources(trackData, i + 1, hasSolo)

\* mixAudioTracks: one second of stereo silence at the context's rate for no
\* tracks; otherwise the rendering of the connected sources in a stereo
\* offline context at the first track's rate, as long as the longest track.
mixAudioTracks(ctxSampleRate, trackData) ==
    IF Len(trackData) = 0
    THEN [numberOfChannels |-> 2, length |-> ctxSampleRate,
          sampleRate |-> ctxSampleRate, sources |-> <<>>]
    ELSE LET hasSolo == \E i \in 1..Len(trackData) : trackData[i].isSolo
             sampleRate == trackData[1].buffer.sampleRate
             lengths == {Ceil(trackData[i].buffer.length * sampleRate,
                              trackData[i].buffer.sampleRate) :
                            i \in 1..Len(trackData)}
         IN  [numberOfChannels |-> 2,
              length |-> CHOOSE n \in lengths : \A m \in lengths : m <= n,
              sampleRate |-> sampleRate,
              sources |-> MixSources(trackData, 1, hasSolo)]

\* The lengths of the offline contexts handed to mixAudioTracks directly.
ContextLengths == {2, 4}

\* handleExport's offline context: the first track's rate, and the frames
\* of the longest track at that rate.
ExportContext(trackData) ==
    LET sampleRate == trackData[1].buffer.sampleRate
        lengths == {Ceil(trackData[i].buffer.length * sampleRate,
                         trackData[i].buffer.sampleRate) :
                       i \in 1..Len(trackData)}
    IN  [sampleRate |-> sampleRate,
         length |-> CHOOSE n \in lengths : \A m \in lengths : m <= n]

\* handleExport up to the mix: nothing without tracks, otherwise the mix of
\* the tracks as they are, in a context as long as the longest track.
MixTracks ==
    /\ Len(tracks) > 0
    /\ fxOut' = [op |-> "mixAudioTracks", given |-> TrackData,
                 context |-> ExportContext(TrackData),
                 output |-> mixAudioTracks(ExportContext(TrackData).sampleRate,
                                           TrackData)]
    /\ UNCHANGED <<effects, nextEffectId, edVars>>

\* mixAudioTracks called with no tracks, the call handleExport's guard
\* leaves out, in a context of the caller's choosing.
MixCall(ctxSampleRate, ctxLength) ==
    /\ Len(tracks) = 0
    /\ fxOut' = [op |-> "mixAudioTracks", given |-> TrackData,
                 context |-> [sampleRate |-> ctxSampleRate, length |-> ctxLength],
                 output |-> mixAudioTracks(ctxSampleRate, TrackData)]
    /\ UNCHANGED <<effects, nextEffectId, edVars>>

\* An edit leaves no result of an earlier call behind.
ForgetResult ==
    /\ fxOut' = [op |-> "none"]
    /\ UNCHANGED <<effects, nextEffectId>>

(***************************************************************************)
(* The encoders                                                            *)
(*                                                                         *)
(* A sample is kept in halves: the whole number s stands for the float     *)
(* s / 2, so -2 is -1.0, 1 is 0.5 and 3 is 1.5.                            *)
(***************************************************************************)

\* Sample values of decoded and rendered audio.
SampleChoices == {-3, -2, -1, 0, 1, 2, 3}

\* The rates of the buffers handed to the encoders.
BufferRates == {22050, 44100}

\* The export settings the schema allows.
ExportRates == {44100, 48000}
BitDepths == {16, 24, 32}
Bitrates == {192}

\* Every sequence of n samples.
SampleSeqs(n) == [1..n -> SampleChoices]

\* The channel the second channel of a stereo buffer holds for a given first
\* channel: the first one mirrored.
Mirrored(data) == [i \in 1..Len(data) |-> 0 - data[i]]

\* The short buffers handed to the encoders, mono and stereo, of every
\* length from one frame to MaxFrames and every content of the first channel.
ShortBuffers ==
    UNION {
        { [numberOfChannels |-> 1, length |-> n, sampleRate |-> r,
           channels |-> <<data>>] : data \in SampleSeqs(n), r \in BufferRates }
        \cup
        { [numberOfChannels |-> 2, length |-> n, sampleRate |-> r,
           channels |-> <<data, Mirrored(data)>>] :
             data \in SampleSeqs(n), r \in BufferRates }
        : n \in 1..MaxFrames }

\* Math.round(a / b) for whole a >= 0 and b > 0.
Round(a, b) == (2 * a + b) \div (2 * b)

\* resampleBuffer: computes the new length, sets up an offline context and a
\* source, never renders, and returns the buffer it was given.
resampleBuffer(buffer, targetSampleRate) ==
    LET newLength == Round(buffer.length * targetSampleRate, buffer.sampleRate)
        offlineContext == [numberOfChannels |-> buffer.numberOfChannels,
                           length |-> newLength, sampleRate |-> targetSampleRate]
    IN  buffer

\* Math.max(-1, Math.min(1, sample))
ClampSample(sample) == IF sample < -2 THEN -2 ELSE IF sample > 2 THEN 2 ELSE sample

\* 0x7FFF, 0x7FFFFF, 0x7FFFFFFF: the largest integer of the bit depth.
MaxPcm(bitDepth) == (2 ^ (bitDepth - 2) - 1) * 2 + 1

ScaleSymmetric(sample, bitDepth) ==
    LET q == MaxPcm(bitDepth) \div 2
        r == MaxPcm(bitDepth) % 2
    IN  IF sample < 0
        THEN sample * q - ((0 - sample) * r) \div 2
        ELSE sample * q + (sample * r) \div 2

\* sample < 0 ? sample * 0x8000 : sample * 0x7FFF (and the wider constants),
\* with the fraction dropped as the integer store drops it.  The products
\* are taken on the halves of the constant so that no intermediate value
\* leaves 32 bits.
Scale(sample, bitDepth) ==
    LET q == MaxPcm(bitDepth) \div 2
        r == MaxPcm(bitDepth) % 2
    IN  IF sample < 0
        THEN sample * q - ((0 - sample) * (r + 1)) \div 2
        ELSE sample * q + (sample * r) \div 2

\* The k little-endian bytes an integer store writes: the low k bytes of the
\* two's complement of the value.
StoredBytes(value, k) == [j \in 1..k |-> (value \div (256 ^ (j - 1))) % 256]

\* The integer a decoder reads from k little-endian bytes.
DecodedInt(bytes) ==
    LET k == Len(bytes)
        low == IF k = 2 THEN bytes[1] + 256 * bytes[2]
               ELSE bytes[1] + 256 * bytes[2] + 65536 * bytes[3]
        top == IF k = 4 THEN bytes[4] ELSE 0
    IN  IF k = 4
        THEN (IF top >= 128 THEN top - 256 ELSE top) * 16777216 + low
        ELSE IF bytes[k] >= 128 THEN low - 256 ^ k ELSE low

BytesPerSampleOf16(bitDepth) == 2

\* bytesPerSample = bitDepth / 8
BytesPerSample(bitDepth) == bitDepth \div 8

\* The bytes the branch of the bit depth writes for one sample; no branch,
\* no bytes.
SampleBytes(sample, bitDepth) ==
    IF bitDepth = 16 THEN StoredBytes(Scale(ClampSample(sample), 16), 2)
    ELSE IF bitDepth = 24 THEN StoredBytes(Scale(ClampSample(sample), 24), 3)
    ELSE IF bitDepth = 32 THEN StoredBytes(Scale(ClampSample(sample), 32), 4)
    ELSE <<>>

\* The two nested loops: frame by frame, channel by channel, each sample
\* written at the offset the previous one left.
RECURSIVE WriteSamples(_, _, _, _, _)
WriteSamples(buffer, bitDepth, i, channel, written) ==
    IF i > buffer.length THEN written
    ELSE IF channel > buffer.numberOfChannels
         THEN WriteSamples(buffer, bitDepth, i + 1, 1, written)
    ELSE WriteSamples(buffer, bitDepth, i, channel + 1,
                      written \o SampleBytes(buffer.channels[channel][i], bitDepth))

\* exportToWAV: resample when the rates differ, size the array, write the
\* 44-byte header, then the interleaved samples.
exportToWAV(audioBuf, sampleRate, bitDepth) ==
    LET buffer == IF audioBuf.sampleRate # sampleRate
                  THEN resampleBuffer(audioBuf, sampleRate)
                  ELSE audioBuf
        numberOfChannels == buffer.numberOfChannels
        blockAlign == numberOfChannels * BytesPerSample(bitDepth)
        byteRate == sampleRate * blockAlign
        dataSize == buffer.length * blockAlign
        bufferSize == 44 + dataSize
        payload == WriteSamples(buffer, bitDepth, 1, 1, <<>>)
    IN  [byteLength |-> bufferSize,
         header |-> [chunkSize |-> bufferSize - 8, format |-> 1,
                     numberOfChannels |-> numberOfChannels,
                     sampleRate |-> sampleRate, byteRate |-> byteRate,
                     blockAlign |-> blockAlign, bitsPerSample |-> bitDepth,
                     dataSize |-> dataSize],
         payload |-> payload,
         offset |-> 44 + Len(payload)]

\* handleExport's WAV branch, on a buffer of the mix.
ExportWAV(buffer, sampleRate, bitDepth) ==
    /\ fxOut.op = "none"
    /\ fxOut' = [op |-> "exportToWAV", input |-> buffer, sampleRate |-> sampleRate,
                 bitDepth |-> bitDepth,
                 output |-> exportToWAV(buffer, sampleRate, bitDepth)]
    /\ UNCHANGED <<effects, nextEffectId>>

\* The samples per channel exportToMP3 hands to the encoder in one call.
sampleBlockSize == 1152

\* Buffers long enough to need several blocks: one sample short of a block,
\* a whole block, one sample more, two blocks, two blocks and a sample.
LongLengths ==
    {sampleBlockSize - 1, sampleBlockSize, sampleBlockSize + 1,
     2 * sampleBlockSize, 2 * sampleBlockSize + 1}

\* Their content: the sample values in a fixed rotation.
RotatingData(n) == [i \in 1..n |-> ((3 * i) % 7) - 3]

LongBuffers ==
    { [numberOfChannels |-> 1, length |-> n, sampleRate |-> 44100,
       channels |-> <<RotatingData(n)>>] : n \in LongLengths }
    \cup
    { [numberOfChannels |-> 2, length |-> n, sampleRate |-> 44100,
       channels |-> <<RotatingData(n), Mirrored(RotatingData(n))>>] :
         n \in LongLengths }

\* samples[j] = s < 0 ? s * 0x8000 : s * 0x7FFF, stored in an Int16Array.
Int16Samples(channelData) ==
    [j \in 1..Len(channelData) |->
        DecodedInt(StoredBytes(Scale(ClampSample(channelData[j]), 16), 2))]

\* typedArray.subarray(begin, end), indices from 0, end clamped to the length.
Subarray(samples, begin, end) ==
    SubSeq(samples, begin + 1, IF end > Len(samples) THEN Len(samples) ELSE end)

LoopContinuesOnWholeBlocks(i, length) == i + sampleBlockSize <= length

\* for (let i = 0; i < channels[0].length; i += sampleBlockSize)
LoopContinues(i, length) == i < length

\* The encodeBuffer calls of the loop, in order.
RECURSIVE EncodeBlocks(_, _, _)
EncodeBlocks(channels, numberOfChannels, i) ==
    IF ~LoopContinues(i, Len(channels[1])) THEN <<>>
    ELSE LET left == Subarray(channels[1], i, i + sampleBlockSize)
             right == IF numberOfChannels > 1
                      THEN Subarray(channels[2], i, i + sampleBlockSize)
                      ELSE left
         IN  <<[fn |-> "encodeBuffer", left |-> left, right |-> right]>>
               \o EncodeBlocks(channels, numberOfChannels, i + sampleBlockSize)

\* mp3Data: the results of the calls that were not empty, in call order; a
\* chunk is named by the number of the call that returned it.
RECURSIVE Pushed(_, _, _)
Pushed(k, last, nonEmpty) ==
    IF k > last THEN <<>>
    ELSE (IF k \in nonEmpty THEN <<k>> ELSE <<>>) \o Pushed(k + 1, last, nonEmpty)

\* exportToMP3: convert every channel to 16-bit integers, hand them to the
\* encoder block by block, flush, and make the blob of the chunks pushed.
\* nonEmpty is the set of encoder calls that return bytes.
exportToMP3(buffer, bitrate, nonEmpty) ==
    LET channels == [c \in 1..buffer.numberOfChannels |->
                        Int16Samples(buffer.channels[c])]
        calls == EncodeBlocks(channels, buffer.numberOfChannels, 0)
                   \o <<[fn |-> "flush"]>>
    IN  [encoder |-> [channels |-> buffer.numberOfChannels,
                      sampleRate |-> buffer.sampleRate, kbps |-> bitrate],
         pcm |-> channels,
         calls |-> calls,
         blob |-> Pushed(1, Len(calls), nonEmpty)]

\* handleExport's MP3 branch, on a buffer of the mix.
ExportMP3(buffer, bitrate, nonEmpty) ==
    /\ fxOut.op = "none"
    /\ fxOut' = [op |-> "exportToMP3", input |-> buffer, bitrate |-> bitrate,
                 nonEmpty |-> nonEmpty,
                 output |-> exportToMP3(buffer, bitrate, nonEmpty)]
    /\ UNCHANGED <<effects, nextEffectId>>

\* handleExport returns: the blob has been handed to the download and the
\* handler's locals are gone.
ExportReturns ==
    /\ fxOut.op \in {"exportToWAV", "exportToMP3"}
    /\ fxOut' = [op |-> "none"]
    /\ UNCHANGED <<effects, nextEffectId>>

(***************************************************************************)
(* handleExport (main.tsx): one export attempt from click to download      *)
(***************************************************************************)

MaxExports == 2

ExportFormats == {"wav", "mp3"}

\* The effect the export attempts are exercised with.
ExportEffectChoices == {e \in EffectChoices : e.type = "reverb"}

ExInit ==
    /\ exports = <<>>
    /\ downloads = <<>>

\* The catch block: one destructive "Export failed" toast, nothing else.
ExportFailedSilently(a) ==
    [a EXCEPT !.pc = "failed"]

ExportFailed(a) ==
    [a EXCEPT !.pc = "failed", !.failureToasts = @ + 1]

\* handleExport up to its first await: nothing happens without tracks;
\* otherwise the "Exporting audio..." toast is raised and the handler
\* suspends on Promise.all.  The closure holds state.effects of the click.
ExportBegin(format) ==
    /\ Len(tracks) > 0
    /\ Len(exports) < MaxExports
    /\ exports' = Append(exports,
                     [pc |-> "decode", format |-> format,
                      hasEffects |-> Len(effects) > 0, completed |-> {},
                      failureToasts |-> 0, completeToasts |-> 0])
    /\ UNCHANGED downloads

\* The tail of the try block: exportToWAV / exportToMP3, then downloadBlob
\* and the "Export complete!" toast; an encoder that throws goes to catch.
ExportEncodeAndDownload(k, a, encodeOk) ==
    IF encodeOk
    THEN /\ exports' = [exports EXCEPT ![k] =
                           [a EXCEPT !.pc = "done",
                                     !.completed = @ \cup {"encode"},
                                     !.completeToasts = @ + 1]]
         /\ downloads' = Append(downloads,
                            [attempt |-> k, format |-> a.format,
                             startedByThen |-> Len(exports)])
    ELSE /\ exports' = [exports EXCEPT ![k] = ExportFailed(a)]
         /\ UNCHANGED downloads

\* Promise.all over the track buffers settles.
ExportDecoded(k, ok) ==
    /\ k \in 1..Len(exports)
    /\ exports[k].pc = "decode"
    /\ exports' = [exports EXCEPT ![k] =
                      IF ok THEN [@ EXCEPT !.pc = "mix"] ELSE ExportFailed(@)]
    /\ UNCHANGED downloads

\* mixAudioTracks settles; without effects the handler runs on to the
\* encoder and the download in the same task.
ExportMixed(k, ok, encodeOk) ==
    /\ k \in 1..Len(exports)
    /\ exports[k].pc = "mix"
    /\ LET a == [exports[k] EXCEPT !.completed = @ \cup {"mix"}]
       IN  IF ~ok
           THEN exports' = [exports EXCEPT ![k] = ExportFailed(@)]
                /\ UNCHANGED downloads
           ELSE IF a.hasEffects
           THEN exports' = [exports EXCEPT ![k] = [a EXCEPT !.pc = "import"]]
                /\ UNCHANGED downloads
           ELSE ExportEncodeAndDownload(k, a, encodeOk)

\* await import("@/lib/audioProcessing") settles.
ExportImported(k, ok) ==
    /\ k \in 1..Len(exports)
    /\ exports[k].pc = "import"
    /\ exports' = [exports EXCEPT ![k] =
                      IF ok THEN [@ EXCEPT !.pc = "render"] ELSE ExportFailed(@)]
    /\ UNCHANGED downloads

\* applyAllEffects settles; the handler runs on to the encoder and the
\* download in the same task.
ExportRendered(k, ok, encodeOk) ==
    /\ k \in 1..Len(exports)
    /\ exports[k].pc = "render"
    /\ LET a == [exports[k] EXCEPT !.completed = @ \cup {"effects"}]
       IN  IF ~ok
           THEN exports' = [exports EXCEPT ![k] = ExportFailed(@)]
                /\ UNCHANGED downloads
           ELSE ExportEncodeAndDownload(k, a, encodeOk)

(***************************************************************************)
(* Effect descriptor schemas (routes.ts).  Every number of a descriptor    *)
(* is in hundredths: 10 stands for 0.1, 1000 for 10.                       *)
(***************************************************************************)

\* The values a bounded field is tried with: both ends of its range and
\* the nearest value beyond each.
AroundRange(lo, hi) == {lo - 1, lo, hi, hi + 1}

DescriptorStartTimes == {-1, 0, 100}

\* -1 s, 0 s, 0.05 s, 0.1 s, 10 s and 11 s.
DescriptorDurations == {-100, 0, 5, 10, 1000, 1100}

Descriptors ==
    [type : {"panning"}, id : {"e"}, startTime : DescriptorStartTimes,
     duration : DescriptorDurations, intensity : AroundRange(0, 10000)]
    \cup
    [type : {"reverb"}, id : {"e"}, startTime : DescriptorStartTimes,
     duration : DescriptorDurations, dryWet : AroundRange(0, 10000),
     decay : AroundRange(10, 1000)]
    \cup
    [type : {"delay"}, id : {"e"}, startTime : DescriptorStartTimes,
     duration : DescriptorDurations, dryWet : AroundRange(0, 10000),
     delayTime : AroundRange(5, 200), feedback : AroundRange(0, 8000)]
    \cup
    [type : {"eq"}, id : {"e"}, startTime : DescriptorStartTimes,
     duration : DescriptorDurations, lowGain : AroundRange(-1200, 1200),
     midGain : AroundRange(-1200, 1200), highGain : AroundRange(-1200, 1200)]
    \cup
    [type : {"compressor"}, id : {"e"}, startTime : DescriptorStartTimes,
     duration : DescriptorDurations, threshold : AroundRange(-10000, 0),
     ratio : AroundRange(100, 2000), attack : AroundRange(0, 100),
     release : AroundRange(0, 100)]
    \cup
    [type : {"pitchshift"}, id : {"e"}, startTime : DescriptorStartTimes,
     duration : DescriptorDurations, semitones : AroundRange(-2400, 2400)]
    \cup
    [type : {"distortion"}, id : {"e"}, startTime : DescriptorStartTimes,
     duration : DescriptorDurations, amount : AroundRange(0, 10000),
     tone : AroundRange(0, 10000)]
    \cup
    [type : {"chorus"}, id : {"e"}, startTime : DescriptorStartTimes,
     duration : DescriptorDurations, rate : AroundRange(50, 500),
     depth : AroundRange(0, 10000), dryWet : AroundRange(0, 10000)]

\* z.number().min(lo).max(hi)
MinMax(x, lo, hi) == x >= lo /\ x <= hi

panningEffectSchema(d) ==
    /\ d.type = "panning"
    /\ d.startTime >= 0
    /\ MinMax(d.duration, 10, 1000)
    /\ MinMax(d.intensity, 0, 10000)

reverbEffectSchema(d) ==
    /\ d.type = "reverb"
    /\ d.startTime >= 0
    /\ d.duration >= 10
    /\ MinMax(d.dryWet, 0, 10000)
    /\ MinMax(d.decay, 10, 1000)

delayEffectSchema(d) ==
    /\ d.type = "delay"
    /\ d.startTime >= 0
    /\ d.duration >= 10
    /\ MinMax(d.dryWet, 0, 10000)
    /\ MinMax(d.delayTime, 5, 200)
    /\ MinMax(d.feedback, 0, 8000)

eqEffectSchema(d) ==
    /\ d.type = "eq"
    /\ d.startTime >= 0
    /\ d.duration >= 10
    /\ MinMax(d.lowGain, -1200, 1200)
    /\ MinMax(d.midGain, -1200, 1200)
    /\ MinMax(d.highGain, -1200, 1200)

compressorEffectSchema(d) ==
    /\ d.type = "compressor"
    /\ d.startTime >= 0
    /\ d.duration >= 10
    /\ MinMax(d.threshold, -10000, 0)
    /\ MinMax(d.ratio, 100, 2000)
    /\ MinMax(d.attack, 0, 100)
    /\ MinMax(d.release, 0, 100)

pitchShiftEffectSchema(d) ==
    /\ d.type = "pitchshift"
    /\ d.startTime >= 0
    /\ d.duration >= 10
    /\ MinMax(d.semitones, -2400, 2400)

distortionEffectSchema(d) ==
    /\ d.type = "distortion"
    /\ d.startTime >= 0
    /\ d.duration >= 10
    /\ MinMax(d.amount, 0, 10000)
    /\ MinMax(d.tone, 0, 10000)

chorusEffectSchema(d) ==
    /\ d.type = "chorus"
    /\ d.startTime >= 0
    /\ d.duration >= 10
    /\ MinMax(d.rate, 50, 500)
    /\ MinMax(d.depth, 0, 10000)
    /\ MinMax(d.dryWet, 0, 10000)

\* z.union: the first member schema that accepts decides.
audioEffectSchema(d) ==
    \/ panningEffectSchema(d)
    \/ reverbEffectSchema(d)
    \/ delayEffectSchema(d)
    \/ eqEffectSchema(d)
    \/ compressorEffectSchema(d)
    \/ pitchShiftEffectSchema(d)
    \/ distortionEffectSchema(d)
    \/ chorusEffectSchema(d)

\* The ranges written on the fields of the effect interfaces.
DocumentedRanges(type) ==
    CASE type = "panning" -> [intensity |-> <<0, 10000>>]
      [] type = "reverb" -> [dryWet |-> <<0, 10000>>, decay |-> <<10, 1000>>]
      [] type = "delay" -> [dryWet |-> <<0, 10000>>, delayTime |-> <<5, 200>>,
                            feedback |-> <<0, 8000>>]
      [] type = "eq" -> [lowGain |-> <<-1200, 1200>>, midGain |-> <<-1200, 1200>>,
                         highGain |-> <<-1200, 1200>>]
      [] type = "compressor" -> [threshold |-> <<-10000, 0>>, ratio |-> <<100, 2000>>,
                                 attack |-> <<0, 100>>, release |-> <<0, 100>>]
      [] type = "pitchshift" -> [semitones |-> <<-2400, 2400>>]
      [] type = "distortion" -> [amount |-> <<0, 10000>>, tone |-> <<0, 10000>>]
      [] type = "chorus" -> [rate |-> <<50, 500>>, depth |-> <<0, 10000>>,
                             dryWet |-> <<0, 10000>>]

InDocumentedRange(d) ==
    LET r == DocumentedRanges(d.type)
    IN  \A f \in DOMAIN r : d[f] >= r[f][1] /\ d[f] <= r[f][2]

\* audioEffectSchema.safeParse(d)
ValidateDescriptor(d) ==
    /\ fxOut.op = "none"
    /\ fxOut' = [op |-> "safeParse", descriptor |-> d,
                 success |-> audioEffectSchema(d)]
    /\ UNCHANGED <<effects, nextEffectId>>

\* The parse result has been consumed.
ParseReturns ==
    /\ fxOut.op = "safeParse"
    /\ fxOut' = [op |-> "none"]
    /\ UNCHANGED <<effects, nextEffectId>>

(***************************************************************************)
(* useHistory: the undoable editor state of main.tsx                       *)
(***************************************************************************)

\* history.present: the editor state object; the buffer registry is a
\* useState of its own and no part of it.
Present == [tracks |-> tracks, effects |-> effects]

HistInit ==
    /\ past = <<>>
    /\ future = <<>>

\* useHistory.setState: the state before the update goes on top of past
\* and the redo list is dropped.
setState ==
    /\ past' = Append(past, Present)
    /\ future' = <<>>

\* useHistory.undo: nothing without a past; otherwise the newest past
\* state becomes present and the old present goes to the front of future.
undo ==
    /\ Len(past) > 0
    /\ tracks' = past[Len(past)].tracks
    /\ effects' = past[Len(past)].effects
    /\ past' = SubSeq(past, 1, Len(past) - 1)
    /\ future' = <<Present>> \o future
    /\ UNCHANGED <<trackBuffers, nextTrackId, nextEffectId, fxOut>>

\* useHistory.redo: nothing without a future; otherwise the nearest
\* future state becomes present and the old present goes on top of past.
redo ==
    /\ Len(future) > 0
    /\ tracks' = future[1].tracks
    /\ effects' = future[1].effects
    /\ past' = Append(past, Present)
    /\ future' = Tail(future)
    /\ UNCHANGED <<trackBuffers, nextTrackId, nextEffectId, fxOut>>

(***************************************************************************)
(* Selection and cutting (CuttingTools, WaveformVisualization, editor.tsx). *)
(* Times are in eighths of a second here; the buffers hold 2 samples per   *)
(* second, so that a sample lasts 4 eighths.                               *)
(***************************************************************************)

\* null, as a record so that it compares with buffers and selections.
Null == [null |-> TRUE]

\* NaN in a Float32Array, as a number no sample of a file has.
NaN == -99

CutSampleRate == 2

\* Eighths of a second in one second.
TicksPerSecond == 8

\* The width of the waveform canvas, in pixels.
CanvasWidth == 4

\* editor.tsx never calls setZoom.
zoom == 1

\* The files that can be loaded: samples are whole numbers standing for
\* floats, all different within a buffer.
CutBuffers ==
    { [sampleRate |-> CutSampleRate, channels |-> << <<1, 2, 3, 4>> >>],
      [sampleRate |-> CutSampleRate, channels |-> << <<1, 2, 3>>, <<-1, -2, -3>> >>] }

LengthOf(buffer) == Len(buffer.channels[1])

\* AudioBuffer.duration = length / sampleRate, in eighths.
DurationOf(buffer) == (LengthOf(buffer) * TicksPerSecond) \div buffer.sampleRate

\* The duration prop: audioBuffer?.duration || 0.
DurationProp == IF editorBuffer = Null THEN 0 ELSE DurationOf(editorBuffer)

\* Math.floor(time * sampleRate) for a time in eighths.
SampleAt(time, sampleRate) == (time * sampleRate) \div TicksPerSecond

\* What can be typed into the start and end fields: nothing, -0.5 s, 0,
\* 0.25 s, 0.5 s, 1 s, 1.5 s, 2 s and 9 s.
EmptyField == [empty |-> TRUE]

Typed(v) == [empty |-> FALSE, value |-> v]

InputChoices == {EmptyField} \cup {Typed(v) : v \in {-4, 0, 2, 4, 8, 12, 16, 72}}

\* parseFloat(input) || fallback: an empty field parses to NaN, and NaN
\* and 0 are both falsy.
ParseOr(input, fallback) ==
    IF input.empty THEN fallback
    ELSE IF input.value = 0 THEN fallback
    ELSE input.value

\* BaseAudioContext.createBuffer: a NotSupportedError for a length that is
\* not positive, otherwise a buffer of zeros.
createBuffer(numberOfChannels, length, sampleRate) ==
    IF length <= 0
    THEN [error |-> "NotSupportedError"]
    ELSE [sampleRate |-> sampleRate,
          channels |-> [c \in 1..numberOfChannels |-> [i \in 1..length |-> 0]]]

\* oldData[i] of a Float32Array, for a 0-based i: undefined becomes NaN
\* when it is stored.
ReadSample(data, i) ==
    IF i >= 0 /\ i < Len(data) THEN data[i + 1] ELSE NaN

\* The body of handleCut from the sample arithmetic to the copy loops:
\* what is thrown, or the new buffer, with the old buffer as the loops
\* leave it.
TrimBuffer(buffer, sel) ==
    LET sampleRate == buffer.sampleRate
        startSample == SampleAt(sel.startTime, sampleRate)
        endSample == SampleAt(sel.endTime, sampleRate)
        newLength == endSample - startSample
        newBuffer == createBuffer(Len(buffer.channels), newLength, sampleRate)
    IN  IF "error" \in DOMAIN newBuffer
        THEN [threw |-> TRUE, original |-> buffer]
        ELSE [threw |-> FALSE, original |-> buffer,
              result |-> [newBuffer EXCEPT !.channels =
                            [c \in 1..Len(buffer.channels) |->
                               [i \in 1..newLength |->
                                  ReadSample(buffer.channels[c],
                                             startSample + (i - 1))]]]]

\* The body of handleDeleteSelection likewise; writes past the end of
\* newData are dropped, as a typed array drops them.
DeleteFromBuffer(buffer, sel) ==
    LET sampleRate == buffer.sampleRate
        startSample == SampleAt(sel.startTime, sampleRate)
        endSample == SampleAt(sel.endTime, sampleRate)
        beforeLength == startSample
        afterLength == LengthOf(buffer) - endSample
        newLength == beforeLength + afterLength
        newBuffer == createBuffer(Len(buffer.channels), newLength, sampleRate)
    IN  IF "error" \in DOMAIN newBuffer
        THEN [threw |-> TRUE, original |-> buffer]
        ELSE [threw |-> FALSE, original |-> buffer,
              result |-> [newBuffer EXCEPT !.channels =
                            [c \in 1..Len(buffer.channels) |->
                               [i \in 1..newLength |->
                                  IF i - 1 >= beforeLength /\ i - 1 - beforeLength < afterLength
                                  THEN ReadSample(buffer.channels[c],
                                                  endSample + (i - 1 - beforeLength))
                                  ELSE IF i - 1 < beforeLength
                                  THEN ReadSample(buffer.channels[c], i - 1)
                                  ELSE 0]]]]

CutInit ==
    /\ editorBuffer = Null
    /\ selection = Null
    /\ isDragging = FALSE
    /\ dragStart = Null
    /\ cutOut = [op |-> "none"]

\* editor.tsx handleFileUpload, the part that concerns cutting: the decoded
\* file becomes the buffer and the selection is cleared.
LoadFile(buffer) ==
    /\ editorBuffer' = buffer
    /\ selection' = Null
    /\ cutOut' = [op |-> "handleFileUpload", replaced |-> TRUE]
    /\ UNCHANGED <<isDragging, dragStart>>

\* CuttingTools.handleSetSelection: the typed range is taken only when it
\* lies inside the buffer and is not empty.
handleSetSelection(startInput, endInput) ==
    LET start == ParseOr(startInput, 0)
        end == ParseOr(endInput, DurationProp)
    IN  /\ selection' = IF start < end /\ start >= 0 /\ end <= DurationProp
                        THEN [startTime |-> start, endTime |-> end]
                        ELSE selection
        /\ cutOut' = [op |-> "handleSetSelection", replaced |-> FALSE]
        /\ UNCHANGED <<editorBuffer, isDragging, dragStart>>

\* The time under the pointer at x pixels from the left edge of the canvas.
TimeAtPixel(x) == (x * DurationOf(editorBuffer)) \div (CanvasWidth * zoom)

\* WaveformVisualization.handleMouseDown
handleMouseDown(x) ==
    /\ editorBuffer # Null
    /\ isDragging' = TRUE
    /\ dragStart' = [time |-> TimeAtPixel(x)]
    /\ selection' = [startTime |-> TimeAtPixel(x), endTime |-> TimeAtPixel(x)]
    /\ cutOut' = [op |-> "handleMouseDown", replaced |-> FALSE]
    /\ UNCHANGED editorBuffer

\* WaveformVisualization.handleMouseMove
handleMouseMove(x) ==
    /\ isDragging
    /\ editorBuffer # Null
    /\ dragStart # Null
    /\ selection' = [startTime |-> IF dragStart.time < TimeAtPixel(x)
                                   THEN dragStart.time ELSE TimeAtPixel(x),
                     endTime |-> IF dragStart.time > TimeAtPixel(x)
                                 THEN dragStart.time ELSE TimeAtPixel(x)]
    /\ cutOut' = [op |-> "handleMouseMove", replaced |-> FALSE]
    /\ UNCHANGED <<editorBuffer, isDragging, dragStart>>

\* WaveformVisualization.handleMouseUp (also run when the pointer leaves).
handleMouseUp ==
    /\ isDragging
    /\ isDragging' = FALSE
    /\ dragStart' = Null
    /\ cutOut' = [op |-> "handleMouseUp", replaced |-> FALSE]
    /\ UNCHANGED <<editorBuffer, selection>>

\* CuttingTools.handleCut (trim to the selection): nothing without a
\* selection and a buffer; a createBuffer that throws ends the handler
\* before any setter runs.
handleCutKeepsSelection ==
    /\ selection # Null
    /\ editorBuffer # Null
    /\ LET r == TrimBuffer(editorBuffer, selection)
       IN  IF r.threw
           THEN /\ cutOut' = [op |-> "handleCut", replaced |-> FALSE, threw |-> TRUE,
                              buffer |-> editorBuffer, selection |-> selection]
                /\ UNCHANGED <<editorBuffer, selection>>
           ELSE /\ editorBuffer' = r.result
                /\ UNCHANGED selection
                /\ cutOut' = [op |-> "handleCut", replaced |-> TRUE, threw |-> FALSE,
                              buffer |-> editorBuffer, selection |-> selection]
    /\ UNCHANGED <<isDragging, dragStart>>

handleCut ==
    /\ selection # Null
    /\ editorBuffer # Null
    /\ LET r == TrimBuffer(editorBuffer, selection)
       IN  IF r.threw
           THEN /\ cutOut' = [op |-> "handleCut", replaced |-> FALSE, threw |-> TRUE,
                              buffer |-> editorBuffer, selection |-> selection]
                /\ UNCHANGED <<editorBuffer, selection>>
           ELSE /\ editorBuffer' = r.result
                /\ selection' = Null
                /\ cutOut' = [op |-> "handleCut", replaced |-> TRUE, threw |-> FALSE,
                              buffer |-> editorBuffer, selection |-> selection]
    /\ UNCHANGED <<isDragging, dragStart>>

\* CuttingTools.handleDeleteSelection (remove the selection) likewise.
handleDeleteSelection ==
    /\ selection # Null
    /\ editorBuffer # Null
    /\ LET r == DeleteFromBuffer(editorBuffer, selection)
       IN  IF r.threw
           THEN /\ cutOut' = [op |-> "handleDeleteSelection", replaced |-> FALSE,
                              threw |-> TRUE,
                              buffer |-> editorBuffer, selection |-> selection]
                /\ UNCHANGED <<editorBuffer, selection>>
           ELSE /\ editorBuffer' = r.result
                /\ selection' = Null
                /\ cutOut' = [op |-> "handleDeleteSelection", replaced |-> TRUE,
                              threw |-> FALSE,
                              buffer |-> editorBuffer, selection |-> selection]
    /\ UNCHANGED <<isDragging, dragStart>>

(***************************************************************************)
(* Realtime playback from a buffer offset (audioProcessing)                *)
(***************************************************************************)

\* The buffer offsets playback is started at, and the clock readings at
\* that moment, in seconds.
RealtimeOffsets == {0, 2, 3}

RealtimeClocks == {0, 1}

\* createRealtimeAudioSource of part_007, the panning automation: the
\* effects share one panner; an effect is scheduled at
\* currentAudioTime + (effect.startTime - startTime), and only when that
\* lies after currentAudioTime.  Event times are in quarters of a second.
RECURSIVE RealtimePannerEvents(_, _, _, _)
RealtimePannerEvents(events, effs, startTime, currentAudioTime) ==
    IF effs = <<>> THEN events
    ELSE LET effect == Head(effs)
             effectStartTime == 4 * currentAudioTime
                                   + (4 * effect.startTime - 4 * startTime)
             effectEndTime == effectStartTime + 4 * effect.duration
             scheduled ==
                 IF effectStartTime > 4 * currentAudioTime
                 THEN ScheduleAll(events,
                         << SetValueAtTime(0, effectStartTime),
                            LinearRampToValueAtTime(PanValue(effect),
                                effectStartTime + effect.duration),
                            SetValueAtTime(PanValue(effect),
                                effectStartTime + 3 * effect.duration),
                            LinearRampToValueAtTime(0, effectEndTime) >>)
                 ELSE events
         IN  RealtimePannerEvents(scheduled, Tail(effs), startTime, currentAudioTime)

\* handlePlayPause / handleSeek build the realtime graph for playback from
\* startTime while the clock reads currentAudioTime: the graph of part_008
\* (which takes startTime and does not use it) and the panner of part_007.
RealtimeStart(startTime, currentAudioTime) ==
    /\ fxOut' = [op |-> "realtimeStart", given |-> effects,
                 startTime |-> startTime, currentAudioTime |-> currentAudioTime,
                 output |-> createRealtimeAudioSource(effects, 80, TRUE),
                 panner |-> RealtimePannerEvents(<<>>, PanningOnly(effects),
                                                 startTime, currentAudioTime)]
    /\ UNCHANGED <<effects, nextEffectId>>

(***************************************************************************)
(* Specifications                                                          *)
(***************************************************************************)

Init == PcInit /\ EdInit /\ LiveInit /\ FxInit /\ ExInit /\ HistInit /\ CutInit

PcNext ==
    \/ handleFileUpload /\ UNCHANGED <<edVars, liveVars, fxVars, exVars, histVars, cutVars>>
    \/ PlayPauseNoBuffer /\ UNCHANGED <<edVars, liveVars, fxVars, exVars, histVars, cutVars>>
    \/ Pause /\ UNCHANGED <<edVars, liveVars, fxVars, exVars, histVars, cutVars>>
    \/ PlayBegin /\ UNCHANGED <<edVars, liveVars, fxVars, exVars, histVars, cutVars>>
    \/ PlayResume /\ UNCHANGED <<edVars, liveVars, fxVars, exVars, histVars, cutVars>>
    \/ handleStop /\ UNCHANGED <<edVars, liveVars, fxVars, exVars, histVars, cutVars>>
    \/ \E t \in SeekTimes : SeekIdle(t) /\ UNCHANGED <<edVars, liveVars, fxVars, exVars, histVars, cutVars>>
    \/ \E t \in SeekTimes : SeekBegin(t) /\ UNCHANGED <<edVars, liveVars, fxVars, exVars, histVars, cutVars>>
    \/ SeekResume /\ UNCHANGED <<edVars, liveVars, fxVars, exVars, histVars, cutVars>>
    \/ \E t \in SeekTimes : TimelineSeek(t) /\ UNCHANGED <<edVars, liveVars, fxVars, exVars, histVars, cutVars>>
    \/ IntervalTick /\ UNCHANGED <<edVars, liveVars, fxVars, exVars, histVars, cutVars>>
    \/ ClockAdvance /\ UNCHANGED <<edVars, liveVars, fxVars, exVars, histVars, cutVars>>
    \/ \E s \in 1..MaxSources : OnEnded(s) /\ UNCHANGED <<edVars, liveVars, fxVars, exVars, histVars, cutVars>>

SpecPlayback == Init /\ [][PcNext]_vars

\* The hook driven against the clock: tracks are imported and removed,
\* playback is started and stopped, animation frames run.
LiveNext ==
    \/ \E b \in BufferChoices : AddTrack(b) /\ UNCHANGED <<pcVars, liveVars, fxVars, exVars, histVars, cutVars>>
    \/ \E id \in 1..MaxTracks : handleRemoveTrack(id) /\ UNCHANGED <<pcVars, liveVars, fxVars, exVars, histVars, cutVars>>
    \/ ClockAdvance /\ UNCHANGED <<edVars, liveVars, fxVars, exVars, histVars, cutVars>>
    \/ \E t \in LiveStartTimes : LiveStart(t) /\ UNCHANGED <<pcVars, edVars, fxVars, exVars, histVars, cutVars>>
    \/ LiveStop /\ UNCHANGED <<pcVars, edVars, fxVars, exVars, histVars, cutVars>>
    \/ LiveRender /\ UNCHANGED <<pcVars, edVars, fxVars, exVars, histVars, cutVars>>
    \/ updateTime /\ UNCHANGED <<pcVars, edVars, fxVars, exVars, histVars, cutVars>>

SpecLive == Init /\ [][LiveNext]_vars

\* The hook's live parameter writes against the editor's track controls,
\* with the clock at rest.
\* The buffer of the tracks whose live controls are exercised.
LiveBufferChoices == {[length |-> 4, sampleRate |-> 2, numberOfChannels |-> 1]}

LiveTracksNext ==
    \/ \E b \in LiveBufferChoices :
          nextTrackId <= MaxLiveTracks /\ AddTrack(b)
             /\ UNCHANGED <<pcVars, liveVars, fxVars, exVars, histVars, cutVars>>
    \/ \E id \in 1..MaxLiveTracks, v \in VolumeChoices :
          SetVolume(id, v) /\ UNCHANGED <<pcVars, liveVars, fxVars, exVars, histVars, cutVars>>
    \/ \E id \in 1..MaxLiveTracks, v \in PanChoices :
          SetPan(id, v) /\ UNCHANGED <<pcVars, liveVars, fxVars, exVars, histVars, cutVars>>
    \/ \E id \in 1..MaxLiveTracks : ToggleMute(id) /\ UNCHANGED <<pcVars, liveVars, fxVars, exVars, histVars, cutVars>>
    \/ \E id \in 1..MaxLiveTracks : ToggleSolo(id) /\ UNCHANGED <<pcVars, liveVars, fxVars, exVars, histVars, cutVars>>
    \/ \E id \in 1..MaxLiveTracks :
          handleRemoveTrack(id) /\ UNCHANGED <<pcVars, liveVars, fxVars, exVars, histVars, cutVars>>
    \/ \E t \in LiveStartTimes : LiveStart(t) /\ UNCHANGED <<pcVars, edVars, fxVars, exVars, histVars, cutVars>>
    \/ LiveStop /\ UNCHANGED <<pcVars, edVars, fxVars, exVars, histVars, cutVars>>
    \/ \E id \in 1..MaxLiveTracks, v \in VolumeChoices :
          updateTrackVolume(id, v) /\ UNCHANGED <<pcVars, edVars, fxVars, exVars, histVars, cutVars>>
    \/ \E id \in 1..MaxLiveTracks, v \in PanChoices :
          updateTrackPan(id, v) /\ UNCHANGED <<pcVars, edVars, fxVars, exVars, histVars, cutVars>>
    \/ \E id \in 1..MaxLiveTracks, m \in BOOLEAN :
          updateTrackMute(id, m) /\ UNCHANGED <<pcVars, edVars, fxVars, exVars, histVars, cutVars>>
    \/ updateTrackSolo /\ UNCHANGED <<pcVars, edVars, fxVars, exVars, histVars, cutVars>>

SpecLiveTracks == Init /\ [][LiveTracksNext]_vars

FxNext ==
    \/ \E e \in EffectChoices : handleAddEffect(e) /\ UNCHANGED <<pcVars, edVars, liveVars, exVars, histVars, cutVars>>
    \/ \E id \in 1..MaxEffects : handleRemoveEffect(id) /\ UNCHANGED <<pcVars, edVars, liveVars, exVars, histVars, cutVars>>
    \/ \E b \in FxBuffers, c \in BOOLEAN :
          RenderAll(b, c) /\ UNCHANGED <<pcVars, edVars, liveVars, exVars, histVars, cutVars>>
    \/ \E b \in FxBuffers : RenderPanning(b) /\ UNCHANGED <<pcVars, edVars, liveVars, exVars, histVars, cutVars>>
    \/ \E c \in BOOLEAN : RealtimeGraph(c) /\ UNCHANGED <<pcVars, edVars, liveVars, exVars, histVars, cutVars>>

SpecFx == Init /\ [][FxNext]_vars

MixNext ==
    \/ EdNext /\ ForgetResult /\ UNCHANGED <<pcVars, liveVars, exVars, histVars, cutVars>>
    \/ MixTracks /\ UNCHANGED <<pcVars, liveVars, exVars, histVars, cutVars>>
    \/ \E r \in ContextSampleRates, n \in ContextLengths :
          MixCall(r, n) /\ UNCHANGED <<pcVars, liveVars, exVars, histVars, cutVars>>

SpecMix == Init /\ [][MixNext]_vars

ExportNext ==
    \/ ExportReturns /\ UNCHANGED <<pcVars, edVars, liveVars, exVars, histVars, cutVars>>
    \/ \E b \in ShortBuffers, r \in ExportRates, d \in BitDepths :
          ExportWAV(b, r, d) /\ UNCHANGED <<pcVars, edVars, liveVars, exVars, histVars, cutVars>>
    \/ \E b \in ShortBuffers \cup LongBuffers, r \in Bitrates :
          \E nonEmpty \in SUBSET (1..(Ceil(b.length, sampleBlockSize) + 1)) :
             ExportMP3(b, r, nonEmpty) /\ UNCHANGED <<pcVars, edVars, liveVars, exVars, histVars, cutVars>>

SpecExport == Init /\ [][ExportNext]_vars

\* Export attempts against the editor: tracks are imported, an effect is
\* added, Export is clicked, and each awaited stage settles or throws.
HandleExportNext ==
    \/ \E b \in LiveBufferChoices :
          nextTrackId <= MaxLiveTracks /\ AddTrack(b)
             /\ UNCHANGED <<pcVars, liveVars, fxVars, exVars, histVars, cutVars>>
    \/ \E e \in ExportEffectChoices :
          handleAddEffect(e) /\ UNCHANGED <<pcVars, edVars, liveVars, exVars, histVars, cutVars>>
    \/ \E f \in ExportFormats : ExportBegin(f) /\ UNCHANGED <<pcVars, edVars, liveVars, fxVars, histVars, cutVars>>
    \/ \E k \in 1..MaxExports, ok \in BOOLEAN :
          ExportDecoded(k, ok) /\ UNCHANGED <<pcVars, edVars, liveVars, fxVars, histVars, cutVars>>
    \/ \E k \in 1..MaxExports, ok \in BOOLEAN, encodeOk \in BOOLEAN :
          ExportMixed(k, ok, encodeOk) /\ UNCHANGED <<pcVars, edVars, liveVars, fxVars, histVars, cutVars>>
    \/ \E k \in 1..MaxExports, ok \in BOOLEAN :
          ExportImported(k, ok) /\ UNCHANGED <<pcVars, edVars, liveVars, fxVars, histVars, cutVars>>
    \/ \E k \in 1..MaxExports, ok \in BOOLEAN, encodeOk \in BOOLEAN :
          ExportRendered(k, ok, encodeOk) /\ UNCHANGED <<pcVars, edVars, liveVars, fxVars, histVars, cutVars>>

SpecHandleExport == Init /\ [][HandleExportNext]_vars

SchemaNext ==
    \/ \E d \in Descriptors :
          ValidateDescriptor(d) /\ UNCHANGED <<pcVars, edVars, liveVars, exVars, histVars, cutVars>>
    \/ ParseReturns /\ UNCHANGED <<pcVars, edVars, liveVars, exVars, histVars, cutVars>>

SpecSchema == Init /\ [][SchemaNext]_vars

\* Track import and removal under the undo history.
HistoryNext ==
    \/ \E b \in BufferChoices :
          AddTrack(b) /\ setState
             /\ UNCHANGED <<pcVars, liveVars, fxVars, exVars, cutVars>>
    \/ \E id \in 1..MaxTracks :
          handleRemoveTrack(id) /\ setState
             /\ UNCHANGED <<pcVars, liveVars, fxVars, exVars, cutVars>>
    \/ undo /\ UNCHANGED <<pcVars, liveVars, exVars, cutVars>>
    \/ redo /\ UNCHANGED <<pcVars, liveVars, exVars, cutVars>>

SpecHistory == Init /\ [][HistoryNext]_vars

\* A file is loaded, a range is typed or dragged, and the range is kept
\* or removed.
CutNext ==
    \/ \E b \in CutBuffers :
          handleFileUpload /\ LoadFile(b)
             /\ UNCHANGED <<edVars, liveVars, fxVars, exVars, histVars>>
    \/ \E a \in InputChoices, b \in InputChoices :
          handleSetSelection(a, b)
             /\ UNCHANGED <<pcVars, edVars, liveVars, fxVars, exVars, histVars>>
    \/ \E x \in 0..CanvasWidth :
          handleMouseDown(x)
             /\ UNCHANGED <<pcVars, edVars, liveVars, fxVars, exVars, histVars>>
    \/ \E x \in 0..CanvasWidth :
          handleMouseMove(x)
             /\ UNCHANGED <<pcVars, edVars, liveVars, fxVars, exVars, histVars>>
    \/ handleMouseUp /\ UNCHANGED <<pcVars, edVars, liveVars, fxVars, exVars, histVars>>
    \/ handleCut /\ UNCHANGED <<pcVars, edVars, liveVars, fxVars, exVars, histVars>>
    \/ handleDeleteSelection
          /\ UNCHANGED <<pcVars, edVars, liveVars, fxVars, exVars, histVars>>

SpecCut == Init /\ [][CutNext]_vars

\* Effects are added and playback is started from an offset.
RealtimeNext ==
    \/ \E e \in EffectChoices :
          handleAddEffect(e)
             /\ UNCHANGED <<pcVars, edVars, liveVars, exVars, histVars, cutVars>>
    \/ \E t \in RealtimeOffsets, c \in RealtimeClocks :
          RealtimeStart(t, c)
             /\ UNCHANGED <<pcVars, edVars, liveVars, exVars, histVars, cutVars>>

SpecRealtime == Init /\ [][RealtimeNext]_vars

\* The hook's gains against mute and solo: tracks are imported, muted and
\* soloed in the editor, playback is started and the hook's update
\* functions are called.
LiveSoloNext ==
    \/ \E b \in LiveBufferChoices :
          AddTrack(b)
             /\ UNCHANGED <<pcVars, liveVars, fxVars, exVars, histVars, cutVars>>
    \/ \E id \in 1..MaxTracks :
          ToggleMute(id)
             /\ UNCHANGED <<pcVars, liveVars, fxVars, exVars, histVars, cutVars>>
    \/ \E id \in 1..MaxTracks :
          ToggleSolo(id)
             /\ UNCHANGED <<pcVars, liveVars, fxVars, exVars, histVars, cutVars>>
    \/ LiveStart(0) /\ UNCHANGED <<pcVars, edVars, fxVars, exVars, histVars, cutVars>>
    \/ \E id \in 1..MaxTracks, v \in VolumeChoices :
          updateTrackVolume(id, v)
             /\ UNCHANGED <<pcVars, edVars, fxVars, exVars, histVars, cutVars>>
    \/ \E id \in 1..MaxTracks, m \in BOOLEAN :
          updateTrackMute(id, m)
             /\ UNCHANGED <<pcVars, edVars, fxVars, exVars, histVars, cutVars>>
    \/ updateTrackSolo /\ UNCHANGED <<pcVars, edVars, fxVars, exVars, histVars, cutVars>>

SpecLiveSolo == Init /\ [][LiveSoloNext]_vars

(***************************************************************************)
(* Claims about PlaybackControls                                           *)
(***************************************************************************)

\* C1: whenever the interval callback has just reported a position and
\* playback goes on (the end of the buffer is not reached), the reported
\* position is (clock now - clock recorded at the last play/seek) + (offset
\* recorded at the last play/seek); and what play/seek recorded is the clock
\* and the buffer offset the referenced source was started with.
C1_PositionFormula ==
    /\ (lastOp = "tick" /\ isPlaying) =>
          currentTime = (clock - playbackStartContextTime) + playbackOffset
    /\ \A s \in 1..Len(sources) :
          (s = sourceNodeRef /\ sources[s].state = "playing") =>
              /\ sources[s].startClock = playbackStartContextTime
              /\ sources[s].offset = playbackOffset

\* A tick reports 8 one second after a seek to 7 restarted the playback.
C1_Witness ==
    /\ lastOp = "tick" /\ isPlaying
    /\ sourceNodeRef = 2 /\ sources[2].state = "playing"
    /\ playbackOffset = 8
    /\ clock - playbackStartContextTime = 1
    /\ currentTime = 9

\* C2: while useLivePlayback plays, the currentTime reported by every
\* animation frame is (clock now - clock at start) + startTime (here in ms),
\* however many frames have run since start(startTime).
C2_LiveSingleFormula ==
    (liveLastOp = "tick" /\ playbackStateRef.isPlaying) =>
        liveCurrentTime =
            1000 * ((clock - liveStartedAt.clock) + liveStartedAt.startTime)

\* C3: at most one audio source is started and not yet stopped at any time.
C3_AtMostOneSourcePlaying ==
    Cardinality({s \in 1..Len(sources) : sources[s].state = "playing"}) <= 1

(***************************************************************************)
(* Claims about the effect graphs                                          *)
(***************************************************************************)

\* C4: in the chain applyAllEffects builds, the stage of an effect with a
\* smaller startTime comes before the stage of an effect with a larger
\* startTime, whatever the order of insertion.
C4_ChainSortedByStartTime ==
    fxOut.op = "applyAllEffects" =>
        \A i, j \in 1..Len(fxOut.output.chain) :
            fxOut.output.chain[i].effect.startTime
              < fxOut.output.chain[j].effect.startTime => i < j

\* Two effects inserted later-start first, rendered with their stages swapped.
C4_Witness ==
    /\ fxOut.op = "applyAllEffects"
    /\ Len(effects) = 2
    /\ effects[1].startTime > effects[2].startTime
    /\ Len(fxOut.output.chain) = 2
    /\ fxOut.output.chain[1].effect.id = effects[2].id
    /\ fxOut.output.chain[2].effect.id = effects[1].id

\* C5: the realtime graph of createRealtimeAudioSource has, for the same
\* list and the same context abilities, the same sequence of stages as the
\* offline graph of applyAllEffects.
C5_RealtimeSameStagesAsOffline ==
    fxOut.op = "createRealtimeAudioSource" =>
        \A b \in FxBuffers :
            fxOut.output.chain
              = applyAllEffects(b, fxOut.given, fxOut.ctxHasCompressor).chain

\* C6: given an empty list, applyAllEffects and applyPanningEffects return
\* a buffer equal to their input in channel count, length, rate and samples.
C6_EmptyListIsIdentity ==
    (fxOut.op \in {"applyAllEffects", "applyPanningEffects"} /\ fxOut.given = <<>>) =>
        /\ fxOut.output.numberOfChannels = fxOut.input.numberOfChannels
        /\ fxOut.output.length = fxOut.input.length
        /\ fxOut.output.sampleRate = fxOut.input.sampleRate
        /\ fxOut.output.channels = fxOut.input.channels
        /\ fxOut.output.chain = fxOut.input.chain

\* A mono buffer rendered through the empty list.
C6_Witness ==
    /\ fxOut.op = "applyAllEffects"
    /\ fxOut.given = <<>>
    /\ fxOut.input.numberOfChannels = 1
    /\ fxOut.output.channels = << <<3, -3>> >>

\* C7: every stage of the offline chain passes the signal through at every
\* time outside [startTime, startTime + duration] of its effect.
C7_EveryStageTimeGated ==
    fxOut.op = "applyAllEffects" =>
        \A k \in 1..Len(fxOut.output.chain) :
            LET stage == fxOut.output.chain[k]
            IN  \A t \in FxTimes :
                    (t < 4 * stage.effect.startTime
                       \/ t > 4 * (stage.effect.startTime + stage.effect.duration))
                        => PassThroughAt(stage, t)

\* The pan value of the automation at time t is the envelope of the effect:
\* 0 before t0, rising linearly to v over the first quarter of d, v until
\* three quarters of d, falling linearly to 0 at t0 + d, 0 afterwards.
FollowsEnvelope(events, effect, t) ==
    LET t0 == 4 * effect.startTime
        d == effect.duration
        v == PanValue(effect)
        val == ParamValueAt(events, t)
    IN  /\ t < t0 => val[1] = 0
        /\ (t0 <= t /\ t <= t0 + d) => val[1] * d = v * (t - t0) * val[2]
        /\ (t0 + d <= t /\ t <= t0 + 3 * d) => val[1] = v * val[2]
        /\ (t0 + 3 * d <= t /\ t <= t0 + 4 * d)
              => val[1] * d = v * (t0 + 4 * d - t) * val[2]
        /\ t > t0 + 4 * d => val[1] = 0

\* C8: for every panning effect of a rendered list, the pan value its
\* panner takes follows the ramp envelope of the effect at every time.
C8_PanFollowsRampEnvelope ==
    fxOut.op \in {"applyAllEffects", "applyPanningEffects"} =>
        \A k \in 1..Len(fxOut.output.chain) :
            LET stage == fxOut.output.chain[k]
            IN  stage.type = "panner" =>
                    \A e \in StageEffects(stage), t \in FxTimes :
                        FollowsEnvelope(stage.pan, e, t)

\* The envelope holds of the panners createPanningEffect builds, one per
\* effect, in the chain of applyAllEffects.
PanEnvelopeOfOwnPanner ==
    fxOut.op = "applyAllEffects" =>
        \A k \in 1..Len(fxOut.output.chain) :
            LET stage == fxOut.output.chain[k]
            IN  stage.type = "panner" =>
                    \A t \in FxTimes : FollowsEnvelope(stage.pan, stage.effect, t)

\* C9: the chain applyAllEffects builds for a list of n effects of the
\* eight types has n stages.
C9_OneStagePerEffect ==
    fxOut.op = "applyAllEffects" => Len(fxOut.output.chain) = Len(fxOut.given)

(***************************************************************************)
(* Claims about the track mixer                                            *)
(***************************************************************************)

\* The indices of the tracks that have a source in the mix made last.
Contributing == {fxOut.output.sources[k].index : k \in 1..Len(fxOut.output.sources)}

AnySolo == \E i \in 1..Len(fxOut.given) : fxOut.given[i].isSolo

\* C10 as stated: when some track is solo, the contributing tracks are
\* exactly the solo tracks, whatever their isMuted flags; when none is, a
\* track contributes iff it is not muted.
C10_SoloRuleAsStated ==
    fxOut.op = "mixAudioTracks" =>
        Contributing =
            {i \in 1..Len(fxOut.given) :
                IF AnySolo THEN fxOut.given[i].isSolo ELSE ~fxOut.given[i].isMuted}

\* C10, amended: when some track is solo, the contributing tracks are
\* exactly the solo tracks that are not muted; when none is, a track
\* contributes iff it is not muted.
C10_SoloRule ==
    fxOut.op = "mixAudioTracks" =>
        Contributing =
            {i \in 1..Len(fxOut.given) :
                IF AnySolo
                THEN fxOut.given[i].isSolo /\ ~fxOut.given[i].isMuted
                ELSE ~fxOut.given[i].isMuted}

\* A mix of two solo tracks, one of them muted: only the other contributes.
C10_Witness ==
    /\ fxOut.op = "mixAudioTracks"
    /\ Len(fxOut.given) = 2
    /\ fxOut.given[1].isSolo /\ fxOut.given[1].isMuted
    /\ fxOut.given[2].isSolo /\ ~fxOut.given[2].isMuted
    /\ Contributing = {2}

\* The length a track's buffer has in frames of the mix's sample rate.
LengthInMix(i) ==
    Ceil(fxOut.given[i].buffer.length * fxOut.output.sampleRate,
         fxOut.given[i].buffer.sampleRate)

\* C11: when some track is included, the mix is as long as the longest
\* included track; a track excluded by mute or solo never makes it longer.
C11_LengthOfLongestIncluded ==
    (fxOut.op = "mixAudioTracks" /\ Contributing # {}) =>
        /\ \E i \in Contributing : fxOut.output.length = LengthInMix(i)
        /\ \A i \in Contributing : LengthInMix(i) <= fxOut.output.length

\* C12: when no track is included (no tracks, or all excluded by mute or
\* solo), the mix is silence as long as the duration requested with the
\* context.
C12_SilenceOfRequestedLength ==
    (fxOut.op = "mixAudioTracks" /\ Contributing = {}) =>
        /\ fxOut.output.sources = <<>>
        /\ fxOut.output.length = fxOut.context.length

(***************************************************************************)
(* Claims about the end of playback, stop, pause and play                  *)
(***************************************************************************)

LiveStopResets ==
    liveLastOp = "stop" =>
        /\ ~playbackStateRef.isPlaying
        /\ liveCurrentTime = 0
        /\ trackNodesRef = <<>>

\* C15: start or play with no buffer loaded creates no source and leaves the
\* playback state as it was.
C15_StartWithoutBufferIsNoOp ==
    [][(liveLastOp' = "start" /\ \A id \in TrackIds : id \notin DOMAIN trackBuffers)
          => (trackNodesRef' = trackNodesRef /\ playbackStateRef' = playbackStateRef)]_vars

\* The same of handlePlayPause of PlaybackControls, where it holds.
PlayWithoutBufferIsNoOp ==
    [][~audioBuffer => /\ sources' = sources
                       /\ pending' = pending
                       /\ UNCHANGED <<isPlaying, playbackStartContextTime,
                                      playbackOffset, sourceNodeRef>>]_vars

(***************************************************************************)
(* Claims about live parameter writes                                      *)
(***************************************************************************)

\* C16: while the hook is stopped, a live parameter write changes no node,
\* creates no node and leaves the playback state as it was.
C16_WriteAfterStopIsNoOp ==
    [][(~playbackStateRef.isPlaying /\ liveLastOp' = "update")
          => /\ trackNodesRef' = trackNodesRef
             /\ trackNodesRef' = <<>>
             /\ playbackStateRef' = playbackStateRef
             /\ liveCurrentTime' = liveCurrentTime]_vars

\* A write made after start(3) and stop(), with tracks in the list.
C16_Witness ==
    /\ liveLastOp = "update"
    /\ liveStartedAt.startTime = 3
    /\ ~playbackStateRef.isPlaying
    /\ Len(tracks) > 0
    /\ trackNodesRef = <<>>

(***************************************************************************)
(* Claims about the encoders                                               *)
(***************************************************************************)

\* The frames per channel the payload of the WAV made last holds.
PayloadFrames ==
    Len(fxOut.output.payload)
      \div (fxOut.input.numberOfChannels * BytesPerSample(fxOut.bitDepth))

\* C17: when the buffer's rate differs from the requested rate, the payload
\* holds round(length * target / source) frames per channel, the frames of
\* the buffer resampled to the rate written in the header.
C17_ResampledBeforeConversion ==
    (fxOut.op = "exportToWAV" /\ fxOut.input.sampleRate # fxOut.sampleRate) =>
        PayloadFrames
          = Round(fxOut.input.length * fxOut.sampleRate, fxOut.input.sampleRate)

\* C18: for every channel count c, frame count n and bit depth b of 16, 24
\* and 32, the file has 44 + n * c * (b / 8) bytes, the header fields are
\* chunk size = total - 8, block align = c * (b / 8), byte rate = rate *
\* block align and data size = n * block align, the write offset ends at
\* the end of the array, and a buffer of zeros gives a payload of zeros.
C18_WavSizeAndHeader ==
    fxOut.op = "exportToWAV" =>
        LET c == fxOut.input.numberOfChannels
            n == fxOut.input.length
            b == fxOut.bitDepth
            out == fxOut.output
        IN  /\ out.byteLength = 44 + n * c * (b \div 8)
            /\ out.header.chunkSize = out.byteLength - 8
            /\ out.header.blockAlign = c * (b \div 8)
            /\ out.header.byteRate = fxOut.sampleRate * out.header.blockAlign
            /\ out.header.dataSize = n * out.header.blockAlign
            /\ out.header.numberOfChannels = c
            /\ out.header.bitsPerSample = b
            /\ out.offset = out.byteLength
            /\ (\A ch \in 1..c, i \in 1..n : fxOut.input.channels[ch][i] = 0)
                  => \A k \in 1..Len(out.payload) : out.payload[k] = 0

\* A 24-bit stereo file of two frames, not all zero.
C18_Witness ==
    /\ fxOut.op = "exportToWAV"
    /\ fxOut.bitDepth = 24
    /\ fxOut.input.numberOfChannels = 2
    /\ fxOut.input.length = 2
    /\ fxOut.input.channels[1] = <<-2, 3>>
    /\ fxOut.output.byteLength = 56
    /\ fxOut.output.offset = 56

\* The integers the payload of the WAV made last stores, sample by sample.
StoredSamples ==
    LET k == BytesPerSample(fxOut.bitDepth)
        payload == fxOut.output.payload
    IN  [m \in 1..(Len(payload) \div k) |->
            DecodedInt(SubSeq(payload, (m - 1) * k + 1, m * k))]

\* The sample of the input the m-th stored integer was made from.
SourceSample(m) ==
    LET c == fxOut.input.numberOfChannels
    IN  fxOut.input.channels[((m - 1) % c) + 1][((m - 1) \div c) + 1]

\* What the conversion is to store for a sample at a bit depth: the sample
\* clamped to [-1, 1], times 2^(b-1) when negative and 2^(b-1) - 1 when not,
\* the fraction dropped.
ExpectedPcm(sample, b) ==
    LET max == MaxPcm(b)
        c == ClampSample(sample)
    IN  IF c = -2 THEN 0 - max - 1
        ELSE IF c = -1 THEN 0 - ((max \div 2) + 1)
        ELSE IF c = 0 THEN 0
        ELSE IF c = 1 THEN max \div 2
        ELSE max

\* C19 for the WAV encoder: every stored integer lies in
\* [-2^(b-1), 2^(b-1) - 1] and is the clamped sample scaled by 2^(b-1) when
\* negative and by 2^(b-1) - 1 when not; -1 gives the minimum, +1 the
\* maximum.
WavPcmConversion ==
    fxOut.op = "exportToWAV" =>
        /\ Len(StoredSamples) = fxOut.input.length * fxOut.input.numberOfChannels
        /\ \A m \in 1..Len(StoredSamples) :
              /\ StoredSamples[m] >= 0 - MaxPcm(fxOut.bitDepth) - 1
              /\ StoredSamples[m] <= MaxPcm(fxOut.bitDepth)
              /\ StoredSamples[m] = ExpectedPcm(SourceSample(m), fxOut.bitDepth)

\* C19 for the MP3 encoder: the same of the 16-bit integers it hands to the
\* encoder.
Mp3PcmConversion ==
    fxOut.op = "exportToMP3" =>
        \A c \in 1..fxOut.input.numberOfChannels :
            /\ Len(fxOut.output.pcm[c]) = fxOut.input.length
            /\ \A j \in 1..fxOut.input.length :
                  /\ fxOut.output.pcm[c][j] >= 0 - MaxPcm(16) - 1
                  /\ fxOut.output.pcm[c][j] <= MaxPcm(16)
                  /\ fxOut.output.pcm[c][j]
                       = ExpectedPcm(fxOut.input.channels[c][j], 16)

\* C19: in both encoders every sample, also one outside [-1, 1], is clamped
\* and then scaled by 2^(b-1) when negative and by 2^(b-1) - 1 when not, so
\* the stored integer lies in [-2^(b-1), 2^(b-1) - 1], -1 giving the
\* minimum and +1 the maximum.
C19_PcmConversion == WavPcmConversion /\ Mp3PcmConversion

\* A 32-bit file that holds -1.5, -1, +1 and 1.5: the extremes twice each.
C19_Witness ==
    /\ fxOut.op = "exportToWAV"
    /\ fxOut.bitDepth = 32
    /\ fxOut.input.channels = << <<-3, 2>>, <<3, -2>> >>
    /\ StoredSamples = <<0 - MaxPcm(32) - 1, MaxPcm(32), MaxPcm(32), 0 - MaxPcm(32) - 1>>

\* C20: the encodeBuffer calls of exportToMP3 carry consecutive blocks that
\* cover the samples once and in order, each block but the last of 1152
\* samples per channel, the last of n mod 1152 when that is not zero; flush
\* is called once, after the last block; the blob is the chunks that were
\* not empty, in the order they were returned.
C20_Mp3BlockAccumulation ==
    fxOut.op = "exportToMP3" =>
        LET calls == fxOut.output.calls
            n == fxOut.input.length
            blocks == Len(calls) - 1
        IN  /\ blocks >= 0
            /\ calls[Len(calls)].fn = "flush"
            /\ blocks = Ceil(n, sampleBlockSize)
            /\ \A k \in 1..blocks :
                  /\ calls[k].fn = "encodeBuffer"
                  /\ Len(calls[k].left)
                       = (IF k < blocks \/ n % sampleBlockSize = 0
                          THEN sampleBlockSize ELSE n % sampleBlockSize)
                  /\ Len(calls[k].right) = Len(calls[k].left)
                  /\ \A j \in 1..Len(calls[k].left) :
                        /\ calls[k].left[j]
                             = fxOut.output.pcm[1][(k - 1) * sampleBlockSize + j]
                        /\ calls[k].right[j]
                             = fxOut.output.pcm[fxOut.input.numberOfChannels]
                                               [(k - 1) * sampleBlockSize + j]
            /\ \A m \in 1..Len(fxOut.output.blob) :
                  /\ fxOut.output.blob[m] \in fxOut.nonEmpty
                  /\ m > 1 => fxOut.output.blob[m - 1] < fxOut.output.blob[m]
            /\ \A k \in fxOut.nonEmpty :
                  \E m \in 1..Len(fxOut.output.blob) : fxOut.output.blob[m] = k

\* Two whole blocks and a last block of one sample, every call returning
\* bytes.
C20_Witness ==
    /\ fxOut.op = "exportToMP3"
    /\ fxOut.input.length = 2 * sampleBlockSize + 1
    /\ fxOut.input.numberOfChannels = 2
    /\ Len(fxOut.output.calls) = 4
    /\ Len(fxOut.output.calls[3].left) = 1
    /\ fxOut.output.blob = <<1, 2, 3, 4>>

(***************************************************************************)
(* Claims about handleExport                                               *)
(***************************************************************************)

\* The stages an attempt has to get through before its file exists.
StagesOf(a) ==
    {"mix", "encode"} \cup (IF a.hasEffects THEN {"effects"} ELSE {})

DownloadsOf(k) == {i \in 1..Len(downloads) : downloads[i].attempt = k}

\* C21: export is all-or-nothing: a file is handed to the download step
\* only by an attempt whose mixing, effect rendering and encoding have all
\* completed and which raised no failure notification; an attempt in which
\* a stage failed has downloaded nothing and has raised exactly one
\* failure notification, and no other attempt has raised any.
C21_ExportAllOrNothing ==
    \A k \in 1..Len(exports) :
       LET a == exports[k]
       IN  /\ Cardinality(DownloadsOf(k)) <= 1
           /\ DownloadsOf(k) # {} =>
                 /\ StagesOf(a) \subseteq a.completed
                 /\ a.pc = "done"
                 /\ a.failureToasts = 0
           /\ a.pc = "failed" =>
                 /\ DownloadsOf(k) = {}
                 /\ a.failureToasts = 1
                 /\ a.completeToasts = 0
           /\ a.pc # "failed" => a.failureToasts = 0

\* One attempt with effects has downloaded its file and another has failed
\* after its mix had completed.
C21_Witness ==
    /\ \E k \in 1..Len(exports) :
          exports[k].hasEffects /\ DownloadsOf(k) # {}
    /\ \E k \in 1..Len(exports) :
          exports[k].pc = "failed" /\ "mix" \in exports[k].completed

\* C22: a render that has been superseded is never delivered: every file
\* handed to the download step comes from the attempt that was the latest
\* one started at that moment.
C22_SupersededNeverDelivered ==
    \A i \in 1..Len(downloads) :
       downloads[i].attempt = downloads[i].startedByThen

(***************************************************************************)
(* Claims about the descriptor schemas                                     *)
(***************************************************************************)

\* C23: a descriptor is rejected exactly when some parameter is outside
\* its documented range, its startTime is negative or its duration is not
\* positive; every other descriptor is accepted.
C23_RejectedExactlyWhenOutOfRange ==
    fxOut.op = "safeParse" =>
       (fxOut.success <=>
           /\ InDocumentedRange(fxOut.descriptor)
           /\ fxOut.descriptor.startTime >= 0
           /\ fxOut.descriptor.duration > 0)

(***************************************************************************)
(* Claims about the track registry                                         *)
(***************************************************************************)

\* C24: after any sequence of import, removal, undo and redo, a track
\* record is in the editor state if and only if the buffer registry holds
\* an entry for that track id.
C24_RecordIffRegistryEntry ==
    TrackIds = DOMAIN trackBuffers

(***************************************************************************)
(* Claims about selection and cutting                                      *)
(***************************************************************************)

\* C25: in every reachable state the selection is null or satisfies
\* 0 <= startTime < endTime <= duration of the current buffer.
C25_SelectionInvariant ==
    selection # Null =>
       /\ 0 <= selection.startTime
       /\ selection.startTime < selection.endTime
       /\ selection.endTime <= DurationProp

\* C26: whenever a handler has replaced the audio buffer (trim, delete of
\* the selection, import of a file), the selection is null in the state
\* it leaves.
C26_SelectionNullAfterReplace ==
    (cutOut.op # "none" /\ cutOut.replaced) => selection = Null

\* A trim has replaced the buffer by a different one.
C26_Witness ==
    /\ cutOut.op = "handleCut"
    /\ cutOut.replaced
    /\ editorBuffer # cutOut.buffer

\* Samples first+1 .. last of every channel, counted from 1.
SamplesOf(buffer, first, last) ==
    [c \in 1..Len(buffer.channels) |-> SubSeq(buffer.channels[c], first + 1, last)]

\* The selection handed to the handler satisfied the selection invariant
\* for the buffer it was applied to.
ValidSelectionOf(buffer, sel) ==
    /\ 0 <= sel.startTime
    /\ sel.startTime < sel.endTime
    /\ sel.endTime <= DurationOf(buffer)

\* C30: for a buffer of n samples and a selection [s, e] with
\* a = floor(s*rate) and b = floor(e*rate), trim returns a new buffer
\* holding samples a..b-1 of every channel, delete returns a new buffer
\* holding samples 0..a-1 followed by b..n-1, the two lengths sum to n,
\* and the original buffer is unchanged by either.
C30_TrimAndDeletePartition ==
    (/\ cutOut.op \in {"handleCut", "handleDeleteSelection"}
     /\ ValidSelectionOf(cutOut.buffer, cutOut.selection))
    => LET buffer == cutOut.buffer
           n == LengthOf(buffer)
           a == SampleAt(cutOut.selection.startTime, buffer.sampleRate)
           b == SampleAt(cutOut.selection.endTime, buffer.sampleRate)
           trimmed == TrimBuffer(buffer, cutOut.selection)
           deleted == DeleteFromBuffer(buffer, cutOut.selection)
       IN  /\ ~trimmed.threw
           /\ ~deleted.threw
           /\ trimmed.result.channels = SamplesOf(buffer, a, b)
           /\ deleted.result.channels =
                 [c \in 1..Len(buffer.channels) |->
                    SamplesOf(buffer, 0, a)[c] \o SamplesOf(buffer, b, n)[c]]
           /\ LengthOf(trimmed.result) + LengthOf(deleted.result) = n
           /\ trimmed.original = buffer
           /\ deleted.original = buffer

(***************************************************************************)
(* Claims about realtime effect timing                                     *)
(***************************************************************************)

\* Two automation values <<numerator, denominator>> are the same number.
SameValue(v, w) == v[1] * w[2] = w[1] * v[2]

\* C27: when playback starts at buffer offset s at clock time c, every
\* effect's realtime envelope at clock time c + (p - s) has the value the
\* offline envelope has at buffer position p, for every p >= s, also for
\* effects whose window already contains s.
C27_RealtimeMatchesOffline ==
    fxOut.op = "realtimeStart" =>
       \A p \in FxTimes :
          p >= 4 * fxOut.startTime =>
             LET at == 4 * fxOut.currentAudioTime + (p - 4 * fxOut.startTime)
                 offline == applyAllEffects(CHOOSE b \in FxBuffers : TRUE,
                                            fxOut.given, TRUE).chain
                 panning == PanningOnly(fxOut.given)
             IN  /\ \A i \in 1..Len(fxOut.output.chain) :
                       fxOut.output.chain[i].type = "panner" =>
                          \E j \in 1..Len(offline) :
                             /\ offline[j].type = "panner"
                             /\ offline[j].effect = fxOut.output.chain[i].effect
                             /\ SameValue(ParamValueAt(fxOut.output.chain[i].pan, at),
                                          ParamValueAt(offline[j].pan, p))
                 /\ SameValue(ParamValueAt(fxOut.panner, at),
                              ParamValueAt(SharedPannerEvents(<<>>, SortedEffects(panning)),
                                           p))

(***************************************************************************)
(* Claims about the live gains                                             *)
(***************************************************************************)

\* Every running node with a non-zero gain belongs to a track that is not
\* muted and that is solo whenever some track is.
GainAgreesWithMuteSolo ==
    \A id \in DOMAIN trackNodesRef \cap TrackIds :
       trackNodesRef[id].gain # 0 =>
          /\ ~TrackById(id).isMuted
          /\ (\E i \in 1..Len(tracks) : tracks[i].isSolo) => TrackById(id).isSolo

\* C28: while useLivePlayback is playing, every start() and every call of
\* updateTrackVolume, updateTrackMute or updateTrackSolo leaves a state in
\* which a track's gain is non-zero only if the track is not muted and
\* (no track is solo or the track itself is solo).
C28_LiveGainAgreesWithMuteSolo ==
    [][(/\ liveLastOp' \in {"start", "update"}
        /\ liveVars' # liveVars
        /\ playbackStateRef'.isPlaying)
       => GainAgreesWithMuteSolo']_vars

(***************************************************************************)
(* Claims about the playing flag                                           *)
(***************************************************************************)

\* C29: whenever the source PlaybackControls holds has been started and
\* has not been stopped or ended, isPlaying is true, in every interleaving
\* of a replaced source's ended event with the seek handler's awaited
\* import.
C29_PlayingFlagAgreesWithSource ==
    (/\ sourceNodeRef # 0
     /\ sources[sourceNodeRef].state = "playing") => isPlaying

====
